---- MODULE Spec2Model ----
(***************************************************************************)
(* SBOM background pipeline of zasufe/sbom: upload validation, safe        *)
(* archive extraction, project-root detection, per-ecosystem command       *)
(* construction, supervised command execution under the concurrency gate,  *)
(* BOM upload and the job status record.                                   *)
(*                                                                         *)
(* Strings that the code inspects character by character (uploaded file    *)
(* names) are sequences of tokens; a path component is a sequence of       *)
(* tokens and a path is a sequence of components.  Paths that are stored   *)
(* in the file system are absolute and resolved, <<>> being "/".           *)
(***************************************************************************)
EXTENDS Integers, Sequences, FiniteSets, TLC

(* ------------------------------ bounds -------------------------------- *)

\* number of jobs that can be submitted
NJobs == 2
\* largest configured value of the SBOM_CONCURRENCY environment setting
MaxConcurrency == 2
\* longest uploaded file name, in tokens
MaxNameLen == 4
\* largest number of members of an uploaded archive
MaxMembers == 3

(* -------------------------- program constants ------------------------- *)

\* SBOM_MAX_EXTRACT_FILES (scaled from 20000 to the size of the modelled archives)
MAX_EXTRACT_FILES == 2
\* SBOM_MAX_EXTRACT_SIZE_BYTES (scaled from 2 GiB to the modelled member sizes)
MAX_EXTRACT_SIZE_BYTES == 3
\* SBOM_ROOT_DETECT_DEPTH
MAX_ROOT_DETECT_DEPTH == 4
\* SBOM_MAX_CAPTURE_CHARS, in units of one token of text
MAX_CAPTURE_CHARS == 2

Pending == 0
Extracting == 1
Generating == 2
Complete == 3
Failed == -1

\* return codes that run_command_logged itself produces
RC_TIMEOUT == 124
RC_NOT_FOUND == 127
RC_ERROR == 1

Jobs == 1..NJobs

(* ------------------------ names and components ------------------------ *)

DOT == <<".">>
DOTDOT == <<".", ".">>
\* marker component of a member name that starts with "/"
ROOTC == <<"/">>
P == <<"p">>
SRC == <<"src">>
APP == <<"app">>
EVIL == <<"evil">>
LINK == <<"link">>
REQ == <<"requirements.txt">>
PYPROJECT == <<"pyproject.toml">>
GOMOD == <<"go.mod">>
COMPOSER_JSON == <<"composer.json">>
COMPOSER_LOCK == <<"composer.lock">>
PACKAGE_JSON == <<"package.json">>
CARGO_TOML == <<"Cargo.toml">>
CMAKELISTS == <<"CMakeLists.txt">>
MAIN_PY == <<"main.py">>
A == <<"a">>
Q == <<"q">>
BUILD == <<"build">>
VENDOR == <<"vendor">>

\* settings.paths.sbom, the storage root, as an absolute path
SbomRoot == <<(<<"sbom">>)>>

\* uuid4().hex of job j: the name of its extraction directory and of its DX project
Uuid(j) == <<"u", ToString(j)>>

\* file_dir = sbom_root / dx_project_name
ExtractDir(j) == Append(SbomRoot, Uuid(j))

\* file_path = sbom_root / filename
ArchivePath(filename) == Append(SbomRoot, filename)

ROOT_HINT_FILES ==
    { REQ, <<"requirement.txt">>, PYPROJECT, <<"setup.py">>, <<"setup.cfg">>, <<"Pipfile">>,
      PACKAGE_JSON, <<"pnpm-lock.yaml">>, <<"yarn.lock">>, <<"package-lock.json">>,
      GOMOD, CARGO_TOML,
      <<"pom.xml">>, <<"build.gradle">>, <<"build.gradle.kts">>, <<"settings.gradle">>,
      <<"settings.gradle.kts">>,
      COMPOSER_JSON,
      CMAKELISTS, <<"Makefile">>, <<"makefile">>, <<"meson.build">>, <<"vcpkg.json">>,
      <<"conanfile.py">>, <<"conanfile.txt">> }

NOISE_DIRS ==
    { <<".git">>, <<".svn">>, <<"node_modules">>, <<".venv">>, <<"venv">>, <<"__pycache__">>,
      <<"target">>, <<"dist">>, <<"build">> }

PYTHON_REQUIREMENT_CANDIDATES ==
    << REQ, <<"requirement.txt">>, <<"requirements-dev.txt">>, <<"requirements-prod.txt">>,
       <<"requirements-test.txt">> >>

C_CPP_BUILD_METADATA ==
    { CMAKELISTS, <<"Makefile">>, <<"makefile">>, <<"compile_commands.json">>,
      <<"conanfile.txt">>, <<"conanfile.py">>, <<"vcpkg.json">>, <<"meson.build">> }

_ALONE_LANGUAGE == {"python", "golang", "php", "javascript", "rust", "java", "c/c++"}
_ALLOWED_ARCHIVE_SUFFIX == { <<"zip">>, <<"tar">> }

Tools ==
    {"cyclonedx-py", "cyclonedx-gomod", "composer", "cyclonedx-npm", "cargo", "cargo-cyclonedx",
     "cdxgen"}

(* ------------------------------- paths -------------------------------- *)

\* the OS resolution of an absolute path without symbolic links: "." and empty
\* components vanish, ".." removes the component before it and is void at "/"
RECURSIVE NormFrom(_, _)
NormFrom(acc, rest) ==
    IF rest = <<>> THEN acc
    ELSE LET c == Head(rest) IN
         IF c = DOT \/ c = <<>> THEN NormFrom(acc, Tail(rest))
         ELSE IF c = DOTDOT
              THEN NormFrom(IF acc = <<>> THEN <<>> ELSE SubSeq(acc, 1, Len(acc) - 1), Tail(rest))
              ELSE NormFrom(Append(acc, c), Tail(rest))

Resolve(p) == NormFrom(<<>>, p)

\* pathlib's base / name: an absolute name replaces the base
Join(base, name) ==
    IF name # <<>> /\ Head(name) = ROOTC THEN Tail(name) ELSE base \o name

IsPrefix(b, t) == Len(t) >= Len(b) /\ SubSeq(t, 1, Len(b)) = b

_is_within_directory(base, target) == IsPrefix(Resolve(base), Resolve(target))

\* the proper ancestors of a resolved path
Ancestors(t) == { SubSeq(t, 1, k) : k \in 0..(Len(t) - 1) }

(* ------------------------- upload validation --------------------------- *)

FileTokens == {"p", ".", "/", "\\", "zip"}

\* the uploaded file names: every token sequence of at most MaxNameLen tokens
RawNames == UNION { [1..n -> FileTokens] : n \in 0..MaxNameLen }

\* index of the last occurrence of tok in s, 0 when there is none
LastIndex(s, tok) ==
    LET I == { i \in 1..Len(s) : s[i] = tok } IN
    IF I = {} THEN 0 ELSE CHOOSE i \in I : \A k \in I : k <= i

\* os.path.basename(name).replace("\\", "_").replace("/", "_")
_safe_filename(name) ==
    LET base == SubSeq(name, LastIndex(name, "/") + 1, Len(name)) IN
    [ i \in 1..Len(base) |-> IF base[i] \in {"\\", "/"} THEN "_" ELSE base[i] ]

\* filename.rsplit(".", 1)[-1].lower(); the modelled tokens are lower case
FileSuffix(filename) == SubSeq(filename, LastIndex(filename, ".") + 1, Len(filename))

\* filename.rsplit(".", 1)[0]
FileStem(filename) == SubSeq(filename, 1, LastIndex(filename, ".") - 1)

\* the checks of create_sbom_project on the language and the file name
UploadAccepted(language, raw) ==
    /\ language \in _ALONE_LANGUAGE
    /\ LastIndex(_safe_filename(raw), ".") # 0
    /\ FileSuffix(_safe_filename(raw)) \in _ALLOWED_ARCHIVE_SUFFIX

(* ------------------------------ archives ------------------------------ *)

Member(name, type, size) == [name |-> name, type |-> type, size |-> size]

\* the members an uploaded archive is made of
MemberPool ==
    { Member(<<REQ>>, "file", 1),
      Member(<<P, REQ>>, "file", 2),
      Member(<<COMPOSER_JSON>>, "file", 1),
      Member(<<DOTDOT, EVIL>>, "file", 2),
      Member(<<ROOTC, EVIL>>, "file", 1),
      Member(<<P, LINK>>, "sym", 0) }

MemberSeqs == UNION { [1..n -> MemberPool] : n \in 0..MaxMembers }

\* "zip", "tar": what is_zipfile / is_tarfile recognise; "other": neither
ArchiveFormats == {"zip", "tar", "other"}

\* name.startswith(("/", "\\")) or ":" in name
SuspiciousAbsolute(name) ==
    \/ name # <<>> /\ Head(name) = ROOTC
    \/ name # <<>> /\ Head(name) # <<>> /\ Head(Head(name)) = "\\"
    \/ \E i \in 1..Len(name) : \E k \in 1..Len(name[i]) : name[i][k] = ":"

\* the member loop of _safe_extract_zip from member i on: "ok" or the error
RECURSIVE ZipScan(_, _, _, _)
ZipScan(ms, i, total, dir) ==
    IF i > Len(ms) THEN "ok"
    ELSE LET m == ms[i]
             t == total + m.size
         IN  IF t > MAX_EXTRACT_SIZE_BYTES THEN "QuotaExceeded"
             ELSE IF SuspiciousAbsolute(m.name) THEN "AbsolutePath"
             ELSE IF ~_is_within_directory(dir, dir \o m.name) THEN "PathTraversal"
             ELSE ZipScan(ms, i + 1, t, dir)

\* mutant of ZipCheck: the number of members is not checked
ZipCheckNoCount(ms, dir) == ZipScan(ms, 1, 0, dir)

\* the checks of _safe_extract_zip before extractall
ZipCheck(ms, dir) ==
    IF Len(ms) > MAX_EXTRACT_FILES THEN "QuotaExceeded" ELSE ZipScan(ms, 1, 0, dir)

\* mutant of TarScan: the check of the resolved location is left out
RECURSIVE TarScanNoTraversal(_, _, _, _)
TarScanNoTraversal(ms, i, total, dir) ==
    IF i > Len(ms) THEN "ok"
    ELSE LET m == ms[i]
             t == total + (IF m.size > 0 THEN m.size ELSE 0)
         IN  IF SuspiciousAbsolute(m.name) THEN "AbsolutePath"
             ELSE IF m.type \in {"sym", "lnk"} THEN "UnsafeMember"
             ELSE IF t > MAX_EXTRACT_SIZE_BYTES THEN "QuotaExceeded"
             ELSE TarScanNoTraversal(ms, i + 1, t, dir)

\* the member loop of _safe_extract_tar from member i on
RECURSIVE TarScan(_, _, _, _)
TarScan(ms, i, total, dir) ==
    IF i > Len(ms) THEN "ok"
    ELSE LET m == ms[i]
             t == total + (IF m.size > 0 THEN m.size ELSE 0)
         IN  IF SuspiciousAbsolute(m.name) THEN "AbsolutePath"
             ELSE IF m.type \in {"sym", "lnk"} THEN "UnsafeMember"
             ELSE IF t > MAX_EXTRACT_SIZE_BYTES THEN "QuotaExceeded"
             ELSE IF ~_is_within_directory(dir, dir \o m.name) THEN "PathTraversal"
             ELSE TarScan(ms, i + 1, t, dir)

\* the checks of _safe_extract_tar before extractall
TarCheck(ms, dir) ==
    IF Len(ms) > MAX_EXTRACT_FILES THEN "QuotaExceeded" ELSE TarScan(ms, 1, 0, dir)

\* ZipFile.extractall drops "", ".", ".." and leading separators from a member name
RECURSIVE ZipSanitize(_)
ZipSanitize(name) ==
    IF name = <<>> THEN <<>>
    ELSE IF Head(name) \in {ROOTC, DOT, DOTDOT, <<>>} THEN ZipSanitize(Tail(name))
    ELSE <<Head(name)>> \o ZipSanitize(Tail(name))

\* where extractall writes member m of an archive of format fmt
MemberTarget(fmt, dir, m) ==
    IF fmt = "zip" THEN Resolve(dir \o ZipSanitize(m.name)) ELSE Resolve(Join(dir, m.name))

\* the entries extractall creates: ZipFile writes a link member as a plain file
ExtractedFiles(fmt, dir, ms) ==
    { MemberTarget(fmt, dir, ms[i]) : i \in { k \in 1..Len(ms) : ms[k].type # "dir" } }

ExtractedDirs(fmt, dir, ms) ==
    UNION { Ancestors(MemberTarget(fmt, dir, ms[i])) : i \in 1..Len(ms) }
    \cup { MemberTarget(fmt, dir, ms[i]) : i \in { k \in 1..Len(ms) : ms[k].type = "dir" } }

\* the (ok, err) pair of _do_extract, as "ok" or the error
ExtractOutcome(fmt, ms, dir) ==
    IF fmt = "tar" THEN TarCheck(ms, dir)
    ELSE IF fmt = "zip" THEN ZipCheck(ms, dir)
    ELSE "UnsupportedFormat"

RECURSIVE TotalSize(_, _)
TotalSize(ms, i) == IF i > Len(ms) THEN 0 ELSE ms[i].size + TotalSize(ms, i + 1)

\* the length of a fixed message text, in units of one token of text
PrefixChars == 1

\* len(name) of a member name, in tokens: its components and the separators between them
RECURSIVE Chars(_)
Chars(name) ==
    IF name = <<>> THEN 0
    ELSE Len(Head(name)) + (IF Len(name) > 1 /\ Head(name) # ROOTC THEN 1 ELSE 0)
         + Chars(Tail(name))

\* the member the loop of _safe_extract_zip / _safe_extract_tar returns its error at
FirstRejected(fmt, ms, dir) ==
    LET Scan(k) == IF fmt = "tar" THEN TarScan(SubSeq(ms, 1, k), 1, 0, dir)
                   ELSE ZipScan(SubSeq(ms, 1, k), 1, 0, dir)
    IN  CHOOSE i \in 1..Len(ms) : Scan(i) # "ok" /\ \A k \in 1..(i - 1) : Scan(k) = "ok"

\* len(err) of the err that _do_extract returns as out: the member checks put the
\* member's name behind a fixed text, an extractall that raised at a member (a bad
\* CRC) has the member's name in its repr, every other text is fixed
ErrChars(fmt, ms, dir, out, written) ==
    IF out = "ok" THEN 0
    ELSE IF out \in {"AbsolutePath", "PathTraversal", "UnsafeMember"}
    THEN PrefixChars + Chars(ms[FirstRejected(fmt, ms, dir)].name)
    ELSE IF out = "ExtractError" /\ written < Len(ms)
    THEN PrefixChars + Chars(ms[written + 1].name)
    ELSE PrefixChars

\* what an uploaded archive is like: its format, whether it has link members, more
\* members than MAX_EXTRACT_FILES, more bytes than MAX_EXTRACT_SIZE_BYTES, and the
\* length of the err its extraction returned
ArchiveFacts(fmt, ms, err_chars) ==
    [ format |-> fmt,
      has_link |-> \E i \in 1..Len(ms) : ms[i].type \in {"sym", "lnk"},
      over_count |-> Len(ms) > MAX_EXTRACT_FILES,
      over_size |-> TotalSize(ms, 1) > MAX_EXTRACT_SIZE_BYTES,
      err_chars |-> err_chars ]

NoArchive ==
    [ format |-> "none", has_link |-> FALSE, over_count |-> FALSE, over_size |-> FALSE,
      err_chars |-> 0 ]

\* some member of the archive names a location outside dir
HasEscapingMember(ms, dir) ==
    \E i \in 1..Len(ms) : ~IsPrefix(Resolve(dir), Resolve(Join(dir, ms[i].name)))

(* ------------------------------- state -------------------------------- *)

VARIABLES
    wide,              \* TRUE: one job, every input; FALSE: every job, the inputs of Canonical*
    SBOM_CONCURRENCY,  \* the configured size of the gate
    permits,           \* _SBOM_SEM._value: free slots of the gate
    installed,         \* the tools that shutil.which resolves on the subprocess PATH
    dirs,              \* directories of the file system (absolute resolved paths)
    files,             \* other entries of the file system
    pc,                \* per job: the step its pipeline is at
    code_language,     \* per job: args.code_language
    file_name,         \* per job: the root hint, the stem of the uploaded file name
    status,            \* per job: sbom_project.status
    error_message,     \* per job: sbom_project.error_message ("NULL" or the text's kind)
    writes,            \* per job: the status values the run has passed to _update_status
    extracted,         \* per job: "none", "ok" or the extraction error
    escaping,          \* per job: the archive it extracted had a member naming a place outside
    bom_cmd,           \* per job: the BomCommand built by build_bom_command
    holding,           \* per job: inside "async with _SBOM_SEM"
    alive,             \* per job: its subprocess exists (spawned, not yet reaped)
    pre_res,           \* per job: <<>> or <<CmdResult>> of the pre-command
    res,               \* per job: <<>> or <<CmdResult>> of the main command
    upload,            \* per job: how update_project_bom ended
    ret,               \* per job: how main ended: "none", "True", "False", "raised"
    reader_tasks,      \* per job: stdout_task and stderr_task of its latest subprocess
    archive,           \* per job: what the archive it extracted was like
    archive_path,      \* per job: where the API saved the uploaded archive
    remote,            \* the projects that exist on the tracking service
    rows,              \* the projects that have a row in sbom_project
    call,              \* per project: the client call or removal in progress, or its end
    reader             \* a _stream_reader task: the chunks to come, buf, captured, the log

vars == << wide, SBOM_CONCURRENCY, permits, installed, dirs, files, pc, code_language,
           file_name, status, error_message, writes, extracted, escaping, bom_cmd, holding,
           alive, pre_res, res, upload, ret, reader_tasks, archive, archive_path,
           remote, rows, call, reader >>

\* the state of the tracking-service client and of project removal
dx_vars == << remote, rows, call >>

(* -------------------------- file system reads ------------------------- *)

\* Path.exists()
Exists(p) == Resolve(p) \in dirs \cup files

\* Path.is_dir()
IsDir(p) == Resolve(p) \in dirs

(* ------------------------- project root locator ----------------------- *)

Count(S) == Cardinality(S)

_score_root_candidate(d) ==
    IF ~IsDir(d) THEN -1
    ELSE 2 * Count({ n \in ROOT_HINT_FILES : Exists(Append(d, n)) })
         + (IF IsDir(Append(d, SRC)) THEN 1 ELSE 0)
         + (IF IsDir(Append(d, APP)) THEN 1 ELSE 0)

\* the directories the breadth-first scan scores: at most MAX_ROOT_DETECT_DEPTH below e,
\* reached without passing through a skipped directory (the claims' "scanned")
Scanned(e) ==
    { d \in dirs : /\ IsPrefix(e, d)
                   /\ Len(d) - Len(e) <= MAX_ROOT_DETECT_DEPTH
                   /\ \A k \in (Len(e) + 1)..Len(d) : d[k] \notin NOISE_DIRS }

\* the directories the scan appends to the frontier while it lists the directories of L
Children(L) ==
    { c \in dirs : /\ Len(c) > 0
                   /\ SubSeq(c, 1, Len(c) - 1) \in L
                   /\ c[Len(c)] \notin NOISE_DIRS }

Max(S) == CHOOSE v \in S : \A w \in S : w <= v

\* mutant of ScanLevels: a directory replaces the best one when it scores as much
RECURSIVE ScanLevelsNonStrict(_, _, _, _)
ScanLevelsNonStrict(L, depth, best, best_score) ==
    IF L = {} \/ depth > MAX_ROOT_DETECT_DEPTH THEN best
    ELSE LET top == Max({ _score_root_candidate(d) : d \in L }) IN
         ScanLevelsNonStrict(Children(L), depth + 1,
                             IF top >= best_score
                             THEN { d \in L : _score_root_candidate(d) = top } ELSE best,
                             IF top >= best_score THEN top ELSE best_score)

\* the while loop over the frontier, one depth at a time: L holds the directories popped
\* at this depth, best the directories "best" can be by now. iterdir fixes no order
\* among the directories of one depth, so the first of them to beat best_score is any
\* of those with the top score of the depth; past the depth bound nothing is scored
RECURSIVE ScanLevels(_, _, _, _)
ScanLevels(L, depth, best, best_score) ==
    IF L = {} \/ depth > MAX_ROOT_DETECT_DEPTH THEN best
    ELSE LET top == Max({ _score_root_candidate(d) : d \in L }) IN
         ScanLevels(Children(L), depth + 1,
                    IF top > best_score
                    THEN { d \in L : _score_root_candidate(d) = top } ELSE best,
                    IF top > best_score THEN top ELSE best_score)

\* best = extract_dir, then the scan from the frontier [(extract_dir, 0)]
ScanBest(e) == ScanLevels({e}, 0, {e}, _score_root_candidate(e))

\* the paths _detect_project_root(extract_dir, hint) can return
_detect_project_root(extract_dir, hint) ==
    LET e == Resolve(extract_dir) IN
    IF hint # <<>> /\ IsDir(Append(e, hint)) THEN { Append(e, hint) } ELSE ScanBest(e)

(* --------------------------- command registry ------------------------- *)

NoCommand == [tool |-> "none", cwd |-> <<>>, output |-> <<>>, pre |-> "none", manifest |-> <<>>]

BomCommand(tool, root, output, pre, manifest) ==
    [tool |-> tool, cwd |-> root, output |-> output, pre |-> pre, manifest |-> manifest]

\* shutil.which(cmd, path=...) is not None
_which(tool) == tool \in installed

\* f"{dx_uuid}.json"
BomName(j) == <<"dx", ToString(j), ".json">>

\* the last existing candidate from position i on, instead of the first
PickFromLast(target_dir, candidates, i) ==
    LET S == { k \in i..Len(candidates) : Exists(Append(target_dir, candidates[k])) } IN
    IF S = {} THEN <<>> ELSE candidates[CHOOSE k \in S : \A m \in S : m <= k]

RECURSIVE PickFrom(_, _, _)
PickFrom(target_dir, candidates, i) ==
    IF i > Len(candidates) THEN <<>>
    ELSE IF Exists(Append(target_dir, candidates[i])) THEN candidates[i]
    ELSE PickFrom(target_dir, candidates, i + 1)

\* <<>> stands for None
_pick_first_existing(target_dir, candidates) == PickFrom(target_dir, candidates, 1)

_build_python_bom(j, root) ==
    LET req == _pick_first_existing(root, PYTHON_REQUIREMENT_CANDIDATES) IN
    IF req # <<>> THEN BomCommand("cyclonedx-py", root, Append(root, BomName(j)), "none", req)
    ELSE IF Exists(Append(root, PYPROJECT))
         THEN BomCommand("cyclonedx-py", root, Append(root, BomName(j)), "none", PYPROJECT)
         ELSE NoCommand

_build_golang_bom(j, root) ==
    IF ~_which("cyclonedx-gomod") \/ ~Exists(Append(root, GOMOD)) THEN NoCommand
    ELSE BomCommand("cyclonedx-gomod", root, Append(root, BomName(j)), "none", GOMOD)

_build_php_bom(j, root) ==
    IF ~_which("composer") \/ ~Exists(Append(root, COMPOSER_JSON)) THEN NoCommand
    ELSE BomCommand("composer+cyclonedx", root, Append(root, BomName(j)),
                    IF Exists(Append(root, COMPOSER_LOCK)) THEN "install" ELSE "update",
                    COMPOSER_JSON)

_build_javascript_bom(j, root) ==
    IF ~_which("cyclonedx-npm") \/ ~Exists(Append(root, PACKAGE_JSON)) THEN NoCommand
    ELSE BomCommand("cyclonedx-npm", root, Append(root, BomName(j)), "none", PACKAGE_JSON)

_build_rust_bom(j, root) ==
    IF ~_which("cargo") \/ ~_which("cargo-cyclonedx") \/ ~Exists(Append(root, CARGO_TOML))
    THEN NoCommand
    ELSE BomCommand("cargo-cyclonedx", root, Append(root, BomName(j)), "none", CARGO_TOML)

_build_java_bom(j, root) ==
    IF ~_which("cdxgen") THEN NoCommand
    ELSE BomCommand("cdxgen", root, Append(root, BomName(j)), "none", <<>>)

_build_c_cpp_bom(j, root) ==
    IF ~_which("cdxgen") THEN NoCommand
    ELSE BomCommand("cdxgen", root, Append(root, BomName(j)), "none", <<>>)

\* code_language.lower().strip()
LowerStrip(language) ==
    CASE language = "Python" -> "python"
      [] language = " java " -> "java"
      [] OTHER -> language

build_bom_command(language, j, root) ==
    LET lang == LowerStrip(language) IN
    CASE lang = "python" -> _build_python_bom(j, root)
      [] lang \in {"golang", "go"} -> _build_golang_bom(j, root)
      [] lang = "php" -> _build_php_bom(j, root)
      [] lang \in {"javascript", "node", "nodejs"} -> _build_javascript_bom(j, root)
      [] lang = "rust" -> _build_rust_bom(j, root)
      [] lang = "java" -> _build_java_bom(j, root)
      [] lang \in {"c/c++", "c", "cpp"} -> _build_c_cpp_bom(j, root)
      [] OTHER -> NoCommand

(* ------------------------------- inputs ------------------------------- *)

\* the languages a client sends; only those of _ALONE_LANGUAGE pass the API check
LangInputs == IF wide THEN _ALONE_LANGUAGE \cup {"Python", "ruby"} ELSE {"python", "php"}

NameInputs == IF wide THEN RawNames ELSE { <<"p", ".", "zip">> }

\* how update_project_bom ended: "none" (not called), "missing" (FileNotFoundError),
\* "response" (the status code of the answer), "transport_error" (the request raised)
UploadOutcome(kind, code) == [kind |-> kind, code |-> code]

NoUpload == UploadOutcome("none", 0)

\* stdout_task and stderr_task: "none" (not created), "pending", "done"
ReaderTasks(stdout_task, stderr_task) == [stdout_task |-> stdout_task, stderr_task |-> stderr_task]

\* how a generator process ends, as <<exit code, text on stderr>>: "captured" is any
\* text of its own, the others are the texts the except branches of run_command_logged
\* put into a result
ProcessExits ==
    IF wide
    THEN { <<0, "captured">>, <<1, "captured">>, <<1, "repr">>, <<RC_TIMEOUT, "captured">>,
           <<RC_TIMEOUT, "TIMEOUT">>, <<RC_NOT_FOUND, "captured">>,
           <<RC_NOT_FOUND, "NOT_FOUND">> }
    ELSE { <<0, "captured">>, <<1, "captured">> }

\* the uploaded archives, as <<format, members>>
ArchiveInputs ==
    IF wide THEN ({"zip", "tar"} \X MemberSeqs) \cup { <<"other", <<>> >> }
    ELSE { <<"zip", <<Member(<<REQ>>, "file", 1)>> >>,
           <<"tar", <<Member(<<COMPOSER_JSON>>, "file", 1)>> >>,
           <<"tar", <<Member(<<DOTDOT, EVIL>>, "file", 2)>> >>,
           <<"other", <<>> >> }

\* the tool sets of the hosts: everything, one tool missing, nothing
ToolEnvs == {Tools, {}} \cup { Tools \ {t} : t \in Tools }

\* the jobs that get submitted
Submitters == IF wide THEN {1} ELSE Jobs

\* a call of the tracking-service client, or a removal, for one project: the operation,
\* where it is at ("idle", "request", "sleep", "local", "end"), the requests it has sent,
\* the status code of the last answer (0: none), how it ended ("none", "uuid", "True",
\* "False", "raised"), last_err or the error it raised, and len(resp.text) of the last
\* answer
Call(op, at, attempts, last, result, err) ==
    [op |-> op, at |-> at, attempts |-> attempts, last |-> last, result |-> result, err |-> err,
     body |-> 0]

NoCall == Call("none", "idle", 0, 0, "none", "none")

\* the user ids removal is asked with: the one every project is created with, another
Users == {"DEFAULT_USER_ID", "other"}

\* the state of one _stream_reader task
Reader(at, chunks, buf, captured, log, stream) ==
    [at |-> at, chunks |-> chunks, buf |-> buf, captured |-> captured, log |-> log,
     stream |-> stream]

NoReader == Reader("none", <<>>, <<>>, 0, <<>>, <<>>)

(* ------------------------------- Init --------------------------------- *)

InitJobs ==
    /\ pc = [j \in Jobs |-> "new"]
    /\ code_language = [j \in Jobs |-> "none"]
    /\ file_name = [j \in Jobs |-> <<>>]
    /\ status = [j \in Jobs |-> Pending]
    /\ error_message = [j \in Jobs |-> "NULL"]
    /\ writes = [j \in Jobs |-> <<>>]
    /\ extracted = [j \in Jobs |-> "none"]
    /\ escaping = [j \in Jobs |-> FALSE]
    /\ bom_cmd = [j \in Jobs |-> NoCommand]
    /\ holding = [j \in Jobs |-> FALSE]
    /\ alive = [j \in Jobs |-> FALSE]
    /\ pre_res = [j \in Jobs |-> <<>>]
    /\ res = [j \in Jobs |-> <<>>]
    /\ upload = [j \in Jobs |-> NoUpload]
    /\ ret = [j \in Jobs |-> "none"]
    /\ reader_tasks = [j \in Jobs |-> ReaderTasks("none", "none")]
    /\ archive = [j \in Jobs |-> NoArchive]
    /\ archive_path = [j \in Jobs |-> <<>>]
    /\ call = [j \in Jobs |-> NoCall]
    /\ remote = {}
    /\ rows = {}
    /\ dirs = { <<>>, SbomRoot }
    /\ files = {}
    /\ permits = SBOM_CONCURRENCY

\* every job is submitted, with the canonical inputs
Init ==
    /\ wide = FALSE
    /\ installed = Tools
    /\ SBOM_CONCURRENCY \in 1..MaxConcurrency
    /\ InitJobs
    /\ reader = NoReader

\* one job is submitted, with every input
InitInputs ==
    /\ wide = TRUE
    /\ installed \in ToolEnvs
    /\ SBOM_CONCURRENCY = MaxConcurrency
    /\ InitJobs
    /\ reader = NoReader

(* --------------------------- status collaborator ---------------------- *)

\* mutant of UpdateStatus: the message is not stored
UpdateStatusDropsMessage(j, s, msg) ==
    /\ status' = [status EXCEPT ![j] = s]
    /\ error_message' = [error_message EXCEPT ![j] = "NULL"]
    /\ writes' = [writes EXCEPT ![j] = Append(@, s)]

\* _update_status: update_project_status sets status and error_message and commits
UpdateStatus(j, s, msg) ==
    /\ status' = [status EXCEPT ![j] = s]
    /\ error_message' = [error_message EXCEPT ![j] = msg]
    /\ writes' = [writes EXCEPT ![j] = Append(@, s)]

\* main returns v
Return(j, v) ==
    /\ pc' = [pc EXCEPT ![j] = "done"]
    /\ ret' = [ret EXCEPT ![j] = v]

(* -------------------------------- API --------------------------------- *)

\* how a validated creation request goes on: to the spawned task, or to an exception of
\* create_project, of aiofiles.open, of a write of the upload, or of the insert for a
\* duplicate project name
SubmitOutcomes == {"spawned", "create_raises", "open_raises", "write_raises", "duplicate"}

\* create_sbom_project: validate, create the project on the tracking service, save the
\* upload as sbom_root / filename, insert the row, spawn main as a background task;
\* when create_project raises, nothing is saved and nothing is spawned; when the save
\* or the insert raises, the exception leaves the handler after the steps before it
Submit(j) ==
    /\ pc[j] = "new"
    /\ j \in Submitters
    /\ \E language \in LangInputs, raw \in NameInputs, outcome \in SubmitOutcomes :
          IF UploadAccepted(language, raw) /\ outcome = "spawned"
          THEN /\ pc' = [pc EXCEPT ![j] = "w_extracting"]
               /\ code_language' = [code_language EXCEPT ![j] = language]
               /\ file_name' = [file_name EXCEPT ![j] = FileStem(_safe_filename(raw))]
               /\ archive_path' = [archive_path EXCEPT ![j] = ArchivePath(_safe_filename(raw))]
               /\ files' = files \cup { ArchivePath(_safe_filename(raw)) }
               /\ remote' = remote \cup {j}
               /\ rows' = rows \cup {j}
          ELSE IF UploadAccepted(language, raw) /\ outcome # "create_raises"
          THEN /\ pc' = [pc EXCEPT ![j] = "create_failed"]
               /\ code_language' = [code_language EXCEPT ![j] = language]
               /\ archive_path' = [archive_path EXCEPT ![j] = ArchivePath(_safe_filename(raw))]
               /\ files' = IF outcome = "open_raises" THEN files
                           ELSE files \cup { ArchivePath(_safe_filename(raw)) }
               /\ remote' = remote \cup {j}
               /\ UNCHANGED << file_name, rows >>
          ELSE /\ pc' = [pc EXCEPT ![j] = IF language \notin _ALONE_LANGUAGE
                                         THEN "rejected_language" ELSE "rejected"]
               /\ code_language' = [code_language EXCEPT ![j] = language]
               /\ UNCHANGED << file_name, archive_path, files, remote, rows >>
    /\ UNCHANGED << wide, SBOM_CONCURRENCY, permits, installed, dirs, status,
                    error_message, writes, extracted, escaping, bom_cmd, holding, alive,
                    pre_res, res, upload, ret, reader_tasks, archive, call, reader >>

(* ---------------------------- extract_archive ------------------------- *)

\* mutant of WriteExtracting: the write is started and not awaited
WriteExtractingDetached(j) ==
    /\ pc[j] = "w_extracting"
    /\ writes' = [writes EXCEPT ![j] = Append(@, Extracting)]
    /\ pc' = [pc EXCEPT ![j] = "extract"]
    /\ UNCHANGED << dx_vars, reader >>
    /\ UNCHANGED << reader_tasks, archive, archive_path >>
    /\ UNCHANGED << wide, SBOM_CONCURRENCY, permits, installed, dirs, files, code_language,
                    file_name, status, error_message, extracted, escaping, bom_cmd, holding,
                    alive, pre_res, res, upload, ret >>

\* await _update_status(status=1)
WriteExtracting(j) ==
    /\ pc[j] = "w_extracting"
    /\ UpdateStatus(j, Extracting, "NULL")
    /\ pc' = [pc EXCEPT ![j] = "extract"]
    /\ UNCHANGED << dx_vars, reader >>
    /\ UNCHANGED << reader_tasks, archive, archive_path >>
    /\ UNCHANGED << wide, SBOM_CONCURRENCY, permits, installed, dirs, files, code_language,
                    file_name, extracted, escaping, bom_cmd, holding, alive, pre_res, res,
                    upload, ret >>

\* _do_extract in a worker thread: mkdir, the checks of the format, extractall, and the
\* unlink of the archive in the finally clause. An archive that is no longer there makes
\* is_tarfile raise; extractall may raise after it has written some of the members
\* (written: how many); both end in the "except Exception" branch.
DoExtract(j) ==
    /\ pc[j] = "extract"
    /\ \E a \in ArchiveInputs, written \in 0..MaxMembers :
          LET fmt == a[1]
              ms == a[2]
              dir == ExtractDir(j)
              present == archive_path[j] \in files
              checked == ExtractOutcome(fmt, ms, dir)
              unpacked == present /\ checked = "ok"
              out == IF ~present THEN "ExtractError"
                     ELSE IF checked # "ok" THEN checked
                     ELSE IF written < Len(ms) THEN "ExtractError"
                     ELSE "ok"
              part == SubSeq(ms, 1, written)
              made == dirs \cup {dir} \cup Ancestors(dir)
          IN  /\ written <= Len(ms)
              /\ ~unpacked => written = Len(ms)
              /\ extracted' = [extracted EXCEPT ![j] = out]
              /\ escaping' = [escaping EXCEPT ![j] = HasEscapingMember(ms, dir)]
              /\ archive' = [archive EXCEPT ![j] =
                                ArchiveFacts(fmt, ms, ErrChars(fmt, ms, dir, out, written))]
              /\ dirs' = IF unpacked THEN made \cup ExtractedDirs(fmt, dir, part) ELSE made
              /\ files' = (files \ { archive_path[j] })
                             \cup (IF unpacked THEN ExtractedFiles(fmt, dir, part) ELSE {})
              /\ pc' = [pc EXCEPT ![j] = IF out = "ok" THEN "w_generating"
                                         ELSE "w_extract_failed"]
    /\ UNCHANGED << dx_vars, reader >>
    /\ UNCHANGED << wide, SBOM_CONCURRENCY, permits, installed, code_language, file_name,
                    status, error_message, writes, bom_cmd, holding, alive, pre_res, res,
                    upload, ret, reader_tasks, archive_path >>

\* mutant of WriteExtractFailed: main goes on to make_dx_bom after the failed extraction
WriteExtractFailedGoesOn(j) ==
    /\ pc[j] = "w_extract_failed"
    /\ UpdateStatus(j, Failed, extracted[j])
    /\ pc' = [pc EXCEPT ![j] = "w_generating"]
    /\ UNCHANGED << dx_vars, reader >>
    /\ UNCHANGED << reader_tasks, archive, archive_path >>
    /\ UNCHANGED << wide, SBOM_CONCURRENCY, permits, installed, dirs, files, code_language,
                    file_name, extracted, escaping, bom_cmd, holding, alive, pre_res, res,
                    upload, ret >>

\* await _update_status(status=-1, error_message=err); return False
WriteExtractFailed(j) ==
    /\ pc[j] = "w_extract_failed"
    /\ UpdateStatus(j, Failed, extracted[j])
    /\ Return(j, "False")
    /\ UNCHANGED << dx_vars, reader >>
    /\ UNCHANGED << reader_tasks, archive, archive_path >>
    /\ UNCHANGED << wide, SBOM_CONCURRENCY, permits, installed, dirs, files, code_language,
                    file_name, extracted, escaping, bom_cmd, holding, alive, pre_res, res,
                    upload >>

(* ------------------------------ make_dx_bom --------------------------- *)

\* mutant of WriteGenerating: the whole of make_dx_bom waits for a free slot of the gate
WriteGeneratingGated(j) ==
    /\ pc[j] = "w_generating"
    /\ permits > 0
    /\ UpdateStatus(j, Generating, "NULL")
    /\ pc' = [pc EXCEPT ![j] = "locate"]
    /\ UNCHANGED << dx_vars, reader >>
    /\ UNCHANGED << reader_tasks, archive, archive_path >>
    /\ UNCHANGED << wide, SBOM_CONCURRENCY, permits, installed, dirs, files, code_language,
                    file_name, extracted, escaping, bom_cmd, holding, alive, pre_res, res,
                    upload, ret >>

\* await _update_status(status=2)
WriteGenerating(j) ==
    /\ pc[j] = "w_generating"
    /\ UpdateStatus(j, Generating, "NULL")
    /\ pc' = [pc EXCEPT ![j] = "locate"]
    /\ UNCHANGED << dx_vars, reader >>
    /\ UNCHANGED << reader_tasks, archive, archive_path >>
    /\ UNCHANGED << wide, SBOM_CONCURRENCY, permits, installed, dirs, files, code_language,
                    file_name, extracted, escaping, bom_cmd, holding, alive, pre_res, res,
                    upload, ret >>

\* _detect_project_root, the existence check of the root, build_bom_command
LocateAndBuild(j) ==
    /\ pc[j] = "locate"
    /\ \E project_root \in _detect_project_root(ExtractDir(j), file_name[j]) :
          LET cmd == build_bom_command(code_language[j], j, project_root) IN
          IF ~Exists(project_root)
          THEN /\ pc' = [pc EXCEPT ![j] = "w_no_root"]
               /\ UNCHANGED bom_cmd
          ELSE IF cmd = NoCommand
          THEN /\ pc' = [pc EXCEPT ![j] = "w_no_command"]
               /\ UNCHANGED bom_cmd
          ELSE /\ pc' = [pc EXCEPT ![j] = "gate"]
               /\ bom_cmd' = [bom_cmd EXCEPT ![j] = cmd]
    /\ UNCHANGED << dx_vars, reader >>
    /\ UNCHANGED << reader_tasks, archive, archive_path >>
    /\ UNCHANGED << wide, SBOM_CONCURRENCY, permits, installed, dirs, files, code_language,
                    file_name, status, error_message, writes, extracted, escaping, holding,
                    alive, pre_res, res, upload, ret >>

\* the Failed write and "return None" for a missing root or a missing command
WriteNoCommand(j) ==
    /\ pc[j] \in {"w_no_root", "w_no_command"}
    /\ UpdateStatus(j, Failed, IF pc[j] = "w_no_root" THEN "NoRoot" ELSE "NoCommand")
    /\ Return(j, "False")
    /\ UNCHANGED << dx_vars, reader >>
    /\ UNCHANGED << reader_tasks, archive, archive_path >>
    /\ UNCHANGED << wide, SBOM_CONCURRENCY, permits, installed, dirs, files, code_language,
                    file_name, extracted, escaping, bom_cmd, holding, alive, pre_res, res,
                    upload >>

\* mutant of AcquireGate: the gate is entered without waiting for a free slot
AcquireGateUnbounded(j) ==
    /\ pc[j] = "gate"
    /\ permits' = permits - 1
    /\ holding' = [holding EXCEPT ![j] = TRUE]
    /\ pc' = [pc EXCEPT ![j] = IF bom_cmd[j].pre # "none" THEN "pre_spawn" ELSE "main_spawn"]
    /\ UNCHANGED << dx_vars, reader >>
    /\ UNCHANGED << reader_tasks, archive, archive_path >>
    /\ UNCHANGED << wide, SBOM_CONCURRENCY, installed, dirs, files, code_language, file_name,
                    status, error_message, writes, extracted, escaping, bom_cmd, alive,
                    pre_res, res, upload, ret >>

\* async with _SBOM_SEM: enter
AcquireGate(j) ==
    /\ pc[j] = "gate"
    /\ permits > 0
    /\ permits' = permits - 1
    /\ holding' = [holding EXCEPT ![j] = TRUE]
    /\ pc' = [pc EXCEPT ![j] = IF bom_cmd[j].pre # "none" THEN "pre_spawn" ELSE "main_spawn"]
    /\ UNCHANGED << dx_vars, reader >>
    /\ UNCHANGED << reader_tasks, archive, archive_path >>
    /\ UNCHANGED << wide, SBOM_CONCURRENCY, installed, dirs, files, code_language, file_name,
                    status, error_message, writes, extracted, escaping, bom_cmd, alive,
                    pre_res, res, upload, ret >>

(* --------------------------- run_command_logged ----------------------- *)

CmdResult(returncode, stderr) == [returncode |-> returncode, stderr |-> stderr]

\* the results of the except branches for a failed create_subprocess_exec
SpawnFailures == { CmdResult(RC_NOT_FOUND, "NOT_FOUND"), CmdResult(RC_ERROR, "repr") }

\* the result after proc.wait() returned in time and both readers were awaited: the
\* return code of the process and the text it wrote to stderr
ExitResult(code, text) == CmdResult(code, text)

\* the result of the TimeoutError branch
TimeoutResult == CmdResult(RC_TIMEOUT, "TIMEOUT")

\* asyncio.create_task(_stream_reader(...)) for both pipes
CreateReaders(j) == reader_tasks' = [reader_tasks EXCEPT ![j] = ReaderTasks("pending", "pending")]

\* stdout_text = await stdout_task; stderr_text = await stderr_task
AwaitReaders(j) == reader_tasks' = [reader_tasks EXCEPT ![j] = ReaderTasks("done", "done")]

\* mutant of AfterPre: the return code of the pre-command is not checked
AfterPreUnchecked(j, r) ==
    /\ pre_res' = [pre_res EXCEPT ![j] = <<r>>]
    /\ pc' = [pc EXCEPT ![j] = "main_spawn"]

\* make_dx_bom after the pre-command returned r
AfterPre(j, r) ==
    /\ pre_res' = [pre_res EXCEPT ![j] = <<r>>]
    /\ pc' = [pc EXCEPT ![j] = IF r.returncode # 0 THEN "w_pre_failed" ELSE "main_spawn"]

\* mutant of AfterMain: a failed main command is spawned again
AfterMainRetries(j, r, fs) ==
    /\ res' = [res EXCEPT ![j] = <<r>>]
    /\ permits' = permits + 1
    /\ holding' = [holding EXCEPT ![j] = FALSE]
    /\ pc' = [pc EXCEPT ![j] =
                IF r.returncode # 0 THEN "main_spawn"
                ELSE IF Resolve(bom_cmd[j].output) \notin (dirs \cup fs) THEN "w_no_output"
                ELSE "upload"]

\* make_dx_bom after the main command returned r: leave the gate, check r and the output
\* file (fs: the files that exist by then)
AfterMain(j, r, fs) ==
    /\ res' = [res EXCEPT ![j] = <<r>>]
    /\ permits' = permits + 1
    /\ holding' = [holding EXCEPT ![j] = FALSE]
    /\ pc' = [pc EXCEPT ![j] =
                IF r.returncode # 0 THEN "w_gen_failed"
                ELSE IF Resolve(bom_cmd[j].output) \notin (dirs \cup fs) THEN "w_no_output"
                ELSE "upload"]

\* create_subprocess_exec for the pre-command
SpawnPre(j) ==
    /\ pc[j] = "pre_spawn"
    /\ \/ /\ alive' = [alive EXCEPT ![j] = TRUE]
          /\ CreateReaders(j)
          /\ pc' = [pc EXCEPT ![j] = "pre_run"]
          /\ UNCHANGED pre_res
       \/ /\ \E r \in SpawnFailures : AfterPre(j, r)
          /\ UNCHANGED << alive, reader_tasks >>
    /\ UNCHANGED << dx_vars, reader >>
    /\ UNCHANGED << archive, archive_path >>
    /\ UNCHANGED << wide, SBOM_CONCURRENCY, permits, installed, dirs, files, code_language,
                    file_name, status, error_message, writes, extracted, escaping, bom_cmd,
                    holding, res, upload, ret >>

\* what "composer install" / "composer update" leaves in cwd when it installs a
\* dependency: the package below vendor/, with the manifests it ships
VendorFiles(cwd) ==
    { Resolve(cwd \o <<VENDOR, P, COMPOSER_JSON>>), Resolve(cwd \o <<VENDOR, P, PACKAGE_JSON>>) }

\* the pre-command exits before the timeout; with exit code 0 it has or has not
\* installed a dependency
ExitPre(j) ==
    /\ pc[j] = "pre_run"
    /\ alive' = [alive EXCEPT ![j] = FALSE]
    /\ AwaitReaders(j)
    /\ \E e \in ProcessExits, installs \in BOOLEAN :
          /\ installs => e[1] = 0
          /\ AfterPre(j, ExitResult(e[1], e[2]))
          /\ files' = IF installs THEN files \cup VendorFiles(bom_cmd[j].cwd) ELSE files
          /\ dirs' = IF installs
                     THEN dirs \cup UNION { Ancestors(f) : f \in VendorFiles(bom_cmd[j].cwd) }
                     ELSE dirs
    /\ UNCHANGED << dx_vars, reader >>
    /\ UNCHANGED << archive, archive_path >>
    /\ UNCHANGED << wide, SBOM_CONCURRENCY, permits, installed, code_language,
                    file_name, status, error_message, writes, extracted, escaping, bom_cmd,
                    holding, res, upload, ret >>

\* wait_for times out on the pre-command: proc.kill(), await proc.wait(), rc 124
TimeoutPre(j) ==
    /\ pc[j] = "pre_run"
    /\ alive' = [alive EXCEPT ![j] = FALSE]
    /\ AfterPre(j, TimeoutResult)
    /\ UNCHANGED << dx_vars, reader >>
    /\ UNCHANGED << reader_tasks, archive, archive_path >>
    /\ UNCHANGED << wide, SBOM_CONCURRENCY, permits, installed, dirs, files, code_language,
                    file_name, status, error_message, writes, extracted, escaping, bom_cmd,
                    holding, res, upload, ret >>

\* a _stream_reader task reads EOF and returns: the process and every process that
\* inherited the pipe have closed it
StreamReaderEOF(j) ==
    /\ \E t \in {"stdout_task", "stderr_task"} :
          /\ reader_tasks[j][t] = "pending"
          /\ reader_tasks' = [reader_tasks EXCEPT ![j][t] = "done"]
    /\ UNCHANGED << dx_vars, reader >>
    /\ UNCHANGED << wide, SBOM_CONCURRENCY, permits, installed, dirs, files, pc,
                    code_language, file_name, status, error_message, writes, extracted,
                    escaping, bom_cmd, holding, alive, pre_res, res, upload, ret, archive,
                    archive_path >>

\* mutant of WritePreFailed: the return after the Failed write does not leave the gate
WritePreFailedKeepsSlot(j) ==
    /\ pc[j] = "w_pre_failed"
    /\ UpdateStatus(j, Failed, "PreFailed")
    /\ Return(j, "False")
    /\ UNCHANGED << dx_vars, reader >>
    /\ UNCHANGED << reader_tasks, archive, archive_path >>
    /\ UNCHANGED << wide, SBOM_CONCURRENCY, permits, installed, dirs, files, code_language,
                    file_name, extracted, escaping, bom_cmd, holding, alive, pre_res, res,
                    upload >>

\* the Failed write after a failed pre-command, inside the gate, and "return None",
\* which leaves the gate
WritePreFailed(j) ==
    /\ pc[j] = "w_pre_failed"
    /\ UpdateStatus(j, Failed, "PreFailed")
    /\ permits' = permits + 1
    /\ holding' = [holding EXCEPT ![j] = FALSE]
    /\ Return(j, "False")
    /\ UNCHANGED << dx_vars, reader >>
    /\ UNCHANGED << reader_tasks, archive, archive_path >>
    /\ UNCHANGED << wide, SBOM_CONCURRENCY, installed, dirs, files, code_language, file_name,
                    extracted, escaping, bom_cmd, alive, pre_res, res, upload >>

\* create_subprocess_exec for the main command
SpawnMain(j) ==
    /\ pc[j] = "main_spawn"
    /\ \/ /\ alive' = [alive EXCEPT ![j] = TRUE]
          /\ CreateReaders(j)
          /\ pc' = [pc EXCEPT ![j] = "main_run"]
          /\ UNCHANGED << res, permits, holding >>
       \/ /\ \E r \in SpawnFailures : AfterMain(j, r, files)
          /\ UNCHANGED << alive, reader_tasks >>
    /\ UNCHANGED << dx_vars, reader >>
    /\ UNCHANGED << archive, archive_path >>
    /\ UNCHANGED << wide, SBOM_CONCURRENCY, installed, dirs, files, code_language, file_name,
                    status, error_message, writes, extracted, escaping, bom_cmd, pre_res,
                    upload, ret >>

\* the main command exits before the timeout; it has or has not written its output file
ExitMain(j) ==
    /\ pc[j] = "main_run"
    /\ alive' = [alive EXCEPT ![j] = FALSE]
    /\ AwaitReaders(j)
    /\ \E wrote \in BOOLEAN, e \in ProcessExits :
          LET fs == IF wrote THEN files \cup { Resolve(bom_cmd[j].output) } ELSE files IN
          /\ files' = fs
          /\ AfterMain(j, ExitResult(e[1], e[2]), fs)
    /\ UNCHANGED << dx_vars, reader >>
    /\ UNCHANGED << archive, archive_path >>
    /\ UNCHANGED << wide, SBOM_CONCURRENCY, installed, dirs, code_language, file_name,
                    status, error_message, writes, extracted, escaping, bom_cmd, pre_res,
                    upload, ret >>

\* mutant of TimeoutMain: the timed-out process is neither killed nor reaped
TimeoutMainNoKill(j) ==
    /\ pc[j] = "main_run"
    /\ AfterMain(j, TimeoutResult, files)
    /\ UNCHANGED << dx_vars, reader >>
    /\ UNCHANGED << reader_tasks, archive, archive_path >>
    /\ UNCHANGED << wide, SBOM_CONCURRENCY, installed, dirs, files, code_language, file_name,
                    status, error_message, writes, extracted, escaping, bom_cmd, pre_res,
                    upload, ret, alive >>

\* wait_for times out on the main command: proc.kill(), await proc.wait(), rc 124
TimeoutMain(j) ==
    /\ pc[j] = "main_run"
    /\ alive' = [alive EXCEPT ![j] = FALSE]
    /\ AfterMain(j, TimeoutResult, files)
    /\ UNCHANGED << dx_vars, reader >>
    /\ UNCHANGED << reader_tasks, archive, archive_path >>
    /\ UNCHANGED << wide, SBOM_CONCURRENCY, installed, dirs, files, code_language, file_name,
                    status, error_message, writes, extracted, escaping, bom_cmd, pre_res,
                    upload, ret >>

\* mutant of WriteGenFailed: the run goes on to the upload after the Failed write
WriteGenFailedGoesOn(j) ==
    /\ pc[j] \in {"w_gen_failed", "w_no_output"}
    /\ UpdateStatus(j, Failed, IF pc[j] = "w_gen_failed" THEN "GenFailed" ELSE "NoOutput")
    /\ pc' = [pc EXCEPT ![j] = "upload"]
    /\ UNCHANGED << dx_vars, reader >>
    /\ UNCHANGED << reader_tasks, archive, archive_path >>
    /\ UNCHANGED << wide, SBOM_CONCURRENCY, permits, installed, dirs, files, code_language,
                    file_name, extracted, escaping, bom_cmd, holding, alive, pre_res, res,
                    upload, ret >>

\* the Failed write for a failed main command or a missing output file; "return None"
WriteGenFailed(j) ==
    /\ pc[j] \in {"w_gen_failed", "w_no_output"}
    /\ UpdateStatus(j, Failed, IF pc[j] = "w_gen_failed" THEN "GenFailed" ELSE "NoOutput")
    /\ Return(j, "False")
    /\ UNCHANGED << dx_vars, reader >>
    /\ UNCHANGED << reader_tasks, archive, archive_path >>
    /\ UNCHANGED << wide, SBOM_CONCURRENCY, permits, installed, dirs, files, code_language,
                    file_name, extracted, escaping, bom_cmd, holding, alive, pre_res, res,
                    upload >>

(* --------------------------------- main ------------------------------- *)

\* status codes the tracking service answers the upload with
UploadResponses == {200, 201, 400, 500}

\* mutant of UploadSucceeded: every answer of the tracking service counts as success
UploadSucceededAlways(code) == code = code

\* r.status_code in (200, 201)
UploadSucceeded(code) == code \in {200, 201}

\* mutant of Upload: the request is sent although bom_path cannot be opened
UploadWithoutFile(j) ==
    /\ pc[j] = "upload"
    /\ \E code \in UploadResponses :
          /\ upload' = [upload EXCEPT ![j] = UploadOutcome("response", code)]
          /\ pc' = [pc EXCEPT ![j] = IF UploadSucceeded(code) THEN "w_complete"
                                     ELSE "w_upload_failed"]
    /\ UNCHANGED << dx_vars, reader >>
    /\ UNCHANGED << reader_tasks, archive, archive_path >>
    /\ UNCHANGED << wide, SBOM_CONCURRENCY, permits, installed, dirs, files, code_language,
                    file_name, status, error_message, writes, extracted, escaping, bom_cmd,
                    holding, alive, pre_res, res, ret >>

\* main locates the root again; update_project_bom opens bom_path and posts it
Upload(j) ==
    /\ pc[j] = "upload"
    /\ \E project_root \in _detect_project_root(ExtractDir(j), file_name[j]) :
          IF ~Exists(Append(project_root, BomName(j)))
          THEN /\ upload' = [upload EXCEPT ![j] = UploadOutcome("missing", 0)]
               /\ pc' = [pc EXCEPT ![j] = "w_upload_failed"]
          ELSE \E code \in UploadResponses :
                  /\ upload' = [upload EXCEPT ![j] = UploadOutcome("response", code)]
                  /\ pc' = [pc EXCEPT ![j] = IF UploadSucceeded(code) THEN "w_complete"
                                             ELSE "w_upload_failed"]
    /\ UNCHANGED << dx_vars, reader >>
    /\ UNCHANGED << reader_tasks, archive, archive_path >>
    /\ UNCHANGED << wide, SBOM_CONCURRENCY, permits, installed, dirs, files, code_language,
                    file_name, status, error_message, writes, extracted, escaping, bom_cmd,
                    holding, alive, pre_res, res, ret >>

\* the post raises (connection refused, read timeout): only FileNotFoundError is caught,
\* the exception leaves update_project_bom and main
UploadRaises(j) ==
    /\ pc[j] = "upload"
    /\ \E project_root \in _detect_project_root(ExtractDir(j), file_name[j]) :
          Exists(Append(project_root, BomName(j)))
    /\ upload' = [upload EXCEPT ![j] = UploadOutcome("transport_error", 0)]
    /\ Return(j, "raised")
    /\ UNCHANGED << dx_vars, reader >>
    /\ UNCHANGED << reader_tasks, archive, archive_path >>
    /\ UNCHANGED << wide, SBOM_CONCURRENCY, permits, installed, dirs, files, code_language,
                    file_name, status, error_message, writes, extracted, escaping, bom_cmd,
                    holding, alive, pre_res, res >>

\* await _update_status(status=3); return True
WriteComplete(j) ==
    /\ pc[j] = "w_complete"
    /\ UpdateStatus(j, Complete, "NULL")
    /\ Return(j, "True")
    /\ UNCHANGED << dx_vars, reader >>
    /\ UNCHANGED << reader_tasks, archive, archive_path >>
    /\ UNCHANGED << wide, SBOM_CONCURRENCY, permits, installed, dirs, files, code_language,
                    file_name, extracted, escaping, bom_cmd, holding, alive, pre_res, res,
                    upload >>

\* await _update_status(status=-1, error_message="DX error"); return False
WriteUploadFailed(j) ==
    /\ pc[j] = "w_upload_failed"
    /\ UpdateStatus(j, Failed, "DX error")
    /\ Return(j, "False")
    /\ UNCHANGED << dx_vars, reader >>
    /\ UNCHANGED << reader_tasks, archive, archive_path >>
    /\ UNCHANGED << wide, SBOM_CONCURRENCY, permits, installed, dirs, files, code_language,
                    file_name, extracted, escaping, bom_cmd, holding, alive, pre_res, res,
                    upload >>

\* the steps that are an await of _update_status, and the value each passes
WriteValue ==
    [ w_extracting |-> Extracting, w_extract_failed |-> Failed, w_generating |-> Generating,
      w_no_root |-> Failed, w_no_command |-> Failed, w_pre_failed |-> Failed,
      w_gen_failed |-> Failed, w_no_output |-> Failed, w_complete |-> Complete,
      w_upload_failed |-> Failed ]

WritePcs == DOMAIN WriteValue

\* the session or the commit of a status write raises: nothing is stored, no caller
\* catches it, the gate (if held) is left and the exception leaves main
StatusWriteRaises(j) ==
    /\ pc[j] \in WritePcs
    /\ writes' = [writes EXCEPT ![j] = Append(@, WriteValue[pc[j]])]
    /\ permits' = IF holding[j] THEN permits + 1 ELSE permits
    /\ holding' = [holding EXCEPT ![j] = FALSE]
    /\ Return(j, "raised")
    /\ UNCHANGED << dx_vars, reader >>
    /\ UNCHANGED << reader_tasks, archive, archive_path >>
    /\ UNCHANGED << wide, SBOM_CONCURRENCY, installed, dirs, files, code_language, file_name,
                    status, error_message, extracted, escaping, bom_cmd, alive, pre_res, res,
                    upload >>

(* ------------------------ tracking-service client --------------------- *)

\* for _ in range(3)
MaxAttempts == 3

ClientOps == {"create_project", "delete_project", "update_project_bom"}

\* status codes the tracking service answers PUT /api/v1/project with
CreateResponses == {201, 400, 500}

\* status codes the tracking service answers DELETE /api/v1/project/{uuid} with: a
\* project it has is deleted (200, 202, 204) or not (500); one it has not is 404 (or 500)
DeleteResponses(j) == IF j \in remote THEN {200, 202, 204, 500} ELSE {404, 500}

\* text[:2000], in units of 1000 characters
MaxErrChars == 2

\* len(resp.text) of the answers: within the bound of _err_of, beyond it
BodyChars == {1, 3}

\* the text is kept whole
_err_of_whole(code, body) == << code, body >>

\* f"{resp.status_code}: {text}" with text = (resp.text or "")[:2000]: the status code and
\* the length of the text
_err_of(code, body) == << code, IF body < MaxErrChars THEN body ELSE MaxErrChars >>

\* r.status_code == 201
CreateSucceeded(code) == code = 201

\* mutant of DeleteSucceeded: a project that is already absent counts as a failure
DeleteSucceededNo404(code) == code \in {200, 202, 204}

\* r.status_code in (200, 202, 204, 404)
DeleteSucceeded(code) == code \in {200, 202, 204, 404}

\* the pipeline state of the other variables, which no client call touches
pipeline_vars == << wide, SBOM_CONCURRENCY, permits, installed, pc, code_language, file_name,
                    status, error_message, writes, extracted, escaping, bom_cmd, holding,
                    alive, pre_res, res, upload, ret, reader_tasks, archive, archive_path >>

\* a caller invokes create_project, delete_project or update_project_bom for project j
DxBegin(j) ==
    /\ call[j].at \in {"idle", "end"}
    /\ \E op \in ClientOps : call' = [call EXCEPT ![j] = Call(op, "request", 0, 0, "none", "none")]
    /\ UNCHANGED << pipeline_vars, reader, dirs, files, remote, rows >>

\* the request raises (connection refused, read timeout): no call catches it
DxTransportError(j) ==
    /\ call[j].at = "request"
    /\ call' = [call EXCEPT ![j] = Call(@.op, "end", @.attempts + 1, 0, "raised", "transport")]
    /\ UNCHANGED << pipeline_vars, reader, dirs, files, remote, rows >>

\* one pass of the loop of create_project: PUT, 201 returns the uuid (or raises when the
\* answer has none), anything else is remembered and slept on
DxCreateAttempt(j) ==
    /\ call[j].op = "create_project"
    /\ call[j].at = "request"
    /\ \E code \in CreateResponses, has_uuid \in BOOLEAN :
          IF CreateSucceeded(code)
          THEN /\ remote' = remote \cup {j}
               /\ call' = [call EXCEPT ![j] =
                             IF has_uuid THEN Call(@.op, "end", @.attempts + 1, code, "uuid", "none")
                             ELSE Call(@.op, "end", @.attempts + 1, code, "raised", "no_uuid")]
          ELSE /\ has_uuid
               /\ remote' = remote
               /\ \E body \in BodyChars :
                     call' = [call EXCEPT ![j] =
                                [Call(@.op, "sleep", @.attempts + 1, code, "none",
                                      _err_of(code, body)) EXCEPT !.body = body]]
    /\ UNCHANGED << pipeline_vars, reader, dirs, files, rows >>

\* mutant of DxDeleteAttempt: removal goes on to the local state whatever the answer
DxDeleteAttemptWeak(j) ==
    /\ call[j].op \in {"delete_project", "remove"}
    /\ call[j].at = "request"
    /\ \E code \in DeleteResponses(j), body \in BodyChars :
          /\ remote' = IF code \in {200, 202, 204} THEN remote \ {j} ELSE remote
          /\ call' = [call EXCEPT ![j] =
                        IF @.op = "remove"
                        THEN Call(@.op, "local", @.attempts + 1, code, "none", "none")
                        ELSE IF DeleteSucceeded(code)
                        THEN Call(@.op, "end", @.attempts + 1, code, "True", "none")
                        ELSE [Call(@.op, "sleep", @.attempts + 1, code, "none",
                                   _err_of(code, body)) EXCEPT !.body = body]]
    /\ UNCHANGED << pipeline_vars, reader, dirs, files, rows >>

\* one pass of the loop of delete_project: DELETE, 200/202/204/404 return True (for a
\* removal: go on to the local state), anything else is remembered and slept on
DxDeleteAttempt(j) ==
    /\ call[j].op \in {"delete_project", "remove"}
    /\ call[j].at = "request"
    /\ \E code \in DeleteResponses(j), body \in BodyChars :
          /\ remote' = IF code \in {200, 202, 204} THEN remote \ {j} ELSE remote
          /\ call' = [call EXCEPT ![j] =
                        IF ~DeleteSucceeded(code)
                        THEN [Call(@.op, "sleep", @.attempts + 1, code, "none",
                                   _err_of(code, body)) EXCEPT !.body = body]
                        ELSE IF @.op = "remove"
                        THEN Call(@.op, "local", @.attempts + 1, code, "none", "none")
                        ELSE Call(@.op, "end", @.attempts + 1, code, "True", "none")]
    /\ UNCHANGED << pipeline_vars, reader, dirs, files, rows >>

\* await _sleep_1s(), then the next pass of the loop or, after the last one, the raise of
\* BusinessException with the last error
DxSleep(j) ==
    /\ call[j].at = "sleep"
    /\ call' = [call EXCEPT ![j] =
                  IF @.attempts < MaxAttempts
                  THEN [Call(@.op, "request", @.attempts, @.last, "none", @.err)
                          EXCEPT !.body = call[j].body]
                  ELSE [Call(@.op, "end", @.attempts, @.last, "raised",
                             << IF @.op = "create_project" THEN "DX_CREATE_PROJECT_FAILED"
                                ELSE "DX_DELETE_PROJECT_FAILED" >> \o @.err)
                          EXCEPT !.body = call[j].body]]
    /\ UNCHANGED << pipeline_vars, reader, dirs, files, remote, rows >>

\* update_project_bom: open(file_path) raises FileNotFoundError (found = FALSE) and False
\* is returned, or the file is posted once and the answer decides
DxUploadAttempt(j) ==
    /\ call[j].op = "update_project_bom"
    /\ call[j].at = "request"
    /\ \E found \in BOOLEAN, code \in UploadResponses :
          call' = [call EXCEPT ![j] =
                     IF ~found THEN Call(@.op, "end", 0, 0, "False", "none")
                     ELSE Call(@.op, "end", @.attempts + 1, code,
                               IF UploadSucceeded(code) THEN "True" ELSE "False", "none")]
    /\ UNCHANGED << pipeline_vars, reader, dirs, files, remote, rows >>

(* ------------------------------ removal ------------------------------- *)

\* the entries below directory d
Below(d, entries) == { e \in entries : IsPrefix(d, e) }

\* sbom_db.delete_project up to the remote deletion: project_authentication and the
\* lookup of code_path and dx_uuid
RemoveBegin(j) ==
    /\ call[j].at \in {"idle", "end"}
    /\ \E user \in Users :
          call' = [call EXCEPT ![j] =
                     IF j \notin rows THEN Call("remove", "end", 0, 0, "raised", "unknown_project")
                     ELSE IF user # "DEFAULT_USER_ID"
                     THEN Call("remove", "end", 0, 0, "raised", "no_permission")
                     ELSE Call("remove", "request", 0, 0, "none", "none")]
    /\ UNCHANGED << pipeline_vars, reader, dirs, files, remote, rows >>

\* sbom_db.delete_project after the remote deletion: rmtree(code_path, ignore_errors=True)
\* if it exists, then the DELETE of the row and the commit (committed = FALSE: they raise)
RemoveLocal(j) ==
    /\ call[j].op = "remove"
    /\ call[j].at = "local"
    /\ dirs' = dirs \ Below(ExtractDir(j), dirs)
    /\ files' = files \ Below(ExtractDir(j), files)
    /\ \E committed \in BOOLEAN :
          IF committed
          THEN /\ rows' = rows \ {j}
               /\ call' = [call EXCEPT ![j] = Call(@.op, "end", @.attempts, @.last, "True", "none")]
          ELSE /\ rows' = rows
               /\ call' = [call EXCEPT ![j] = Call(@.op, "end", @.attempts, @.last, "raised", "db")]
    /\ UNCHANGED << pipeline_vars, reader, remote >>

(* ---------------------------- specification --------------------------- *)

Next ==
    \E j \in Jobs :
        \/ Submit(j)
        \/ WriteExtracting(j)
        \/ DoExtract(j)
        \/ WriteExtractFailed(j)
        \/ WriteGenerating(j)
        \/ LocateAndBuild(j)
        \/ WriteNoCommand(j)
        \/ AcquireGate(j)
        \/ SpawnPre(j)
        \/ ExitPre(j)
        \/ TimeoutPre(j)
        \/ StreamReaderEOF(j)
        \/ WritePreFailed(j)
        \/ SpawnMain(j)
        \/ ExitMain(j)
        \/ TimeoutMain(j)
        \/ WriteGenFailed(j)
        \/ Upload(j)
        \/ UploadRaises(j)
        \/ WriteComplete(j)
        \/ WriteUploadFailed(j)
        \/ StatusWriteRaises(j)

\* every job runs, on the canonical inputs
Spec == Init /\ [][Next]_vars

\* one job runs, on every input
SpecInputs == InitInputs /\ [][Next]_vars

\* every job is submitted, with the canonical inputs, and the gate has a single slot, so
\* that a job waits at the gate whenever another job is inside
InitLive ==
    /\ wide = FALSE
    /\ installed = Tools
    /\ SBOM_CONCURRENCY = 1
    /\ InitJobs
    /\ reader = NoReader

\* a step of the background task of job j: main, from the first status write on
Run(j) ==
    \/ WriteExtracting(j)
    \/ DoExtract(j)
    \/ WriteExtractFailed(j)
    \/ WriteGenerating(j)
    \/ LocateAndBuild(j)
    \/ WriteNoCommand(j)
    \/ AcquireGate(j)
    \/ SpawnPre(j)
    \/ ExitPre(j)
    \/ TimeoutPre(j)
    \/ StreamReaderEOF(j)
    \/ WritePreFailed(j)
    \/ SpawnMain(j)
    \/ ExitMain(j)
    \/ TimeoutMain(j)
    \/ WriteGenFailed(j)
    \/ Upload(j)
    \/ UploadRaises(j)
    \/ WriteComplete(j)
    \/ WriteUploadFailed(j)
    \/ StatusWriteRaises(j)

\* every job runs and the event loop goes on running each spawned task that can take a
\* step: an awaited write, thread, process (bounded by its timeout) or request returns
SpecLive == InitLive /\ [][Next]_vars /\ \A j \in Jobs : WF_vars(Run(j))

\* the projects of earlier submissions, as their runs left them after an archive of an
\* unsupported format: the row, the extraction directory, the project on the tracking
\* service
InitDx ==
    /\ wide = FALSE
    /\ installed = Tools
    /\ SBOM_CONCURRENCY = MaxConcurrency
    /\ permits = SBOM_CONCURRENCY
    /\ \E created \in SUBSET Jobs :
          /\ pc = [j \in Jobs |-> IF j \in created THEN "done" ELSE "new"]
          /\ code_language = [j \in Jobs |-> IF j \in created THEN "python" ELSE "none"]
          /\ file_name = [j \in Jobs |-> IF j \in created THEN <<"p">> ELSE <<>>]
          /\ status = [j \in Jobs |-> IF j \in created THEN Failed ELSE Pending]
          /\ error_message = [j \in Jobs |-> IF j \in created THEN "UnsupportedFormat" ELSE "NULL"]
          /\ writes = [j \in Jobs |-> IF j \in created THEN <<Extracting, Failed>> ELSE <<>>]
          /\ extracted = [j \in Jobs |-> IF j \in created THEN "UnsupportedFormat" ELSE "none"]
          /\ ret = [j \in Jobs |-> IF j \in created THEN "False" ELSE "none"]
          /\ archive = [j \in Jobs |-> IF j \in created THEN ArchiveFacts("other", <<>>, PrefixChars)
                                       ELSE NoArchive]
          /\ archive_path = [j \in Jobs |-> IF j \in created
                                            THEN ArchivePath(<<"p", ".", "zip">>) ELSE <<>>]
          /\ dirs = { <<>>, SbomRoot } \cup { ExtractDir(j) : j \in created }
          /\ remote = created
          /\ rows = created
    /\ escaping = [j \in Jobs |-> FALSE]
    /\ bom_cmd = [j \in Jobs |-> NoCommand]
    /\ holding = [j \in Jobs |-> FALSE]
    /\ alive = [j \in Jobs |-> FALSE]
    /\ pre_res = [j \in Jobs |-> <<>>]
    /\ res = [j \in Jobs |-> <<>>]
    /\ upload = [j \in Jobs |-> NoUpload]
    /\ reader_tasks = [j \in Jobs |-> ReaderTasks("none", "none")]
    /\ call = [j \in Jobs |-> NoCall]
    /\ reader = NoReader
    /\ files = {}

NextDx ==
    \E j \in Jobs :
        \/ DxBegin(j)
        \/ DxTransportError(j)
        \/ DxCreateAttempt(j)
        \/ DxDeleteAttempt(j)
        \/ DxSleep(j)
        \/ DxUploadAttempt(j)
        \/ RemoveBegin(j)
        \/ RemoveLocal(j)

\* the client calls and removals of finished projects
SpecDx == InitDx /\ [][NextDx]_vars

(* --------------------- removal of a running project ------------------- *)

\* the job whose project is removed while its background task runs
Removed == 1

\* the creation request of a project, the steps of its background task and, at any time
\* once the request has been made, the removal of the project
NextRemoval ==
    \/ Submit(Removed)
    \/ Run(Removed)
    \/ RemoveBegin(Removed)
    \/ DxDeleteAttempt(Removed)
    \/ DxSleep(Removed)
    \/ DxTransportError(Removed)
    \/ RemoveLocal(Removed)

\* a project is created and removed; nothing orders the removal and the background task
SpecRemoval == InitLive /\ [][NextRemoval]_vars

(* ------------------------ root location on trees ---------------------- *)

\* the files an extracted archive can hold, relative to the extraction directory:
\* manifests at the top, in a wrapping directory, below it, in a skipped directory and
\* past the depth bound, files that are no manifests, and the requirement files of
\* lower priority and pyproject.toml at the top
TreeFiles ==
    { <<REQ>>, <<MAIN_PY>>, <<P, REQ>>, <<P, PYPROJECT>>, <<P, MAIN_PY>>, <<P, SRC, REQ>>,
      <<SRC, MAIN_PY>>, <<BUILD, REQ>>, <<A, A, A, A, A, REQ>>,
      <<PYTHON_REQUIREMENT_CANDIDATES[2]>>, <<PYTHON_REQUIREMENT_CANDIDATES[3]>>,
      <<PYPROJECT>> }

\* code_language of the jobs whose root is located: cdxgen takes any root, the Python
\* generator takes the root's requirement file or pyproject.toml
LocateLanguages == { "java", "python" }

\* the trees of the archives within the member quota
TreeInputs == { T \in SUBSET TreeFiles : Cardinality(T) <= MAX_EXTRACT_FILES }

\* file_name, the hint of root location: the name of the wrapping directory, or another
Hints == { P, Q }

\* job 1 after extract_archive left the tree T in its extraction directory and
\* make_dx_bom wrote Generating; the command of the job records the root that was
\* located
InitLocate ==
    /\ wide = TRUE
    /\ installed = Tools
    /\ SBOM_CONCURRENCY = MaxConcurrency
    /\ permits = SBOM_CONCURRENCY
    /\ \E T \in TreeInputs, hint \in Hints, language \in LocateLanguages :
          /\ code_language = [j \in Jobs |-> IF j = 1 THEN language ELSE "none"]
          /\ files = { ExtractDir(1) \o f : f \in T }
          /\ dirs = { <<>>, SbomRoot, ExtractDir(1) }
                    \cup UNION { Ancestors(ExtractDir(1) \o f) : f \in T }
          /\ file_name = [j \in Jobs |-> IF j = 1 THEN hint ELSE <<>>]
          /\ archive_path = [j \in Jobs |-> IF j = 1 THEN ArchivePath(hint \o <<".", "zip">>)
                                            ELSE <<>>]
    /\ pc = [j \in Jobs |-> IF j = 1 THEN "locate" ELSE "new"]
    /\ status = [j \in Jobs |-> IF j = 1 THEN Generating ELSE Pending]
    /\ error_message = [j \in Jobs |-> "NULL"]
    /\ writes = [j \in Jobs |-> IF j = 1 THEN <<Extracting, Generating>> ELSE <<>>]
    /\ extracted = [j \in Jobs |-> IF j = 1 THEN "ok" ELSE "none"]
    /\ archive = [j \in Jobs |-> IF j = 1 THEN ArchiveFacts("zip", <<>>, 0) ELSE NoArchive]
    /\ remote = {1}
    /\ rows = {1}
    /\ escaping = [j \in Jobs |-> FALSE]
    /\ bom_cmd = [j \in Jobs |-> NoCommand]
    /\ holding = [j \in Jobs |-> FALSE]
    /\ alive = [j \in Jobs |-> FALSE]
    /\ pre_res = [j \in Jobs |-> <<>>]
    /\ res = [j \in Jobs |-> <<>>]
    /\ upload = [j \in Jobs |-> NoUpload]
    /\ ret = [j \in Jobs |-> "none"]
    /\ reader_tasks = [j \in Jobs |-> ReaderTasks("none", "none")]
    /\ call = [j \in Jobs |-> NoCall]
    /\ reader = NoReader

NextLocate == \E j \in Jobs : LocateAndBuild(j)

\* root location and command construction, on every tree
SpecLocate == InitLocate /\ [][NextLocate]_vars

(* ---------------------------- _stream_reader ------------------------- *)

\* stream.read(4096) returns at most that many bytes, in units of one byte here
MaxChunk == 2

\* the chunks a stream arrives in
MaxChunks == 3

\* bytes of UTF-8 text: "a" is a character of one byte, "h" and "t" are the first and
\* the second byte of a character of two bytes
Bytes == {"a", "h", "t"}

Chunks == UNION { [1..n -> Bytes] : n \in 1..MaxChunk }

\* the bytes of a sequence of chunks
RECURSIVE Flat(_)
Flat(cs) == IF cs = <<>> THEN <<>> ELSE Head(cs) \o Flat(Tail(cs))

\* what a process writes to a pipe, as the chunks read() returns it in
Streams == UNION { [1..n -> Chunks] : n \in 0..MaxChunks }

\* bytes.decode("utf-8", "ignore"): a byte that begins no complete character is dropped;
\* "e" is the character of the two bytes "h", "t"
RECURSIVE Decode(_)
Decode(bs) ==
    IF bs = <<>> THEN <<>>
    ELSE IF Head(bs) = "a" THEN <<"a">> \o Decode(Tail(bs))
    ELSE IF Head(bs) = "h" /\ Len(bs) >= 2 /\ bs[2] = "t" THEN <<"e">> \o Decode(Tail(Tail(bs)))
    ELSE Decode(Tail(bs))

\* a task starts on a stream: captured = 0, buf = []
InitReader == reader \in { Reader("reading", st, <<>>, 0, <<>>, st) : st \in Streams }

\* one pass of the loop: a chunk is read, decoded, sent to the EXEC log, and the part of
\* it within the capture budget is appended to buf
StreamRead ==
    /\ reader.at = "reading"
    /\ reader.chunks # <<>>
    /\ LET text == Decode(Head(reader.chunks))
           remain == MAX_CAPTURE_CHARS - reader.captured
           piece == IF reader.captured < MAX_CAPTURE_CHARS
                    THEN SubSeq(text, 1, IF Len(text) < remain THEN Len(text) ELSE remain)
                    ELSE <<>>
       IN  reader' = Reader("reading", Tail(reader.chunks), reader.buf \o piece,
                            reader.captured + Len(piece), reader.log \o text, reader.stream)
    /\ UNCHANGED << pipeline_vars, dirs, files, remote, rows, call >>

\* read() returns b"" at EOF: break, return "".join(buf)
StreamReturn ==
    /\ reader.at = "reading"
    /\ reader.chunks = <<>>
    /\ reader' = Reader("returned", <<>>, reader.buf, reader.captured, reader.log, reader.stream)
    /\ UNCHANGED << pipeline_vars, dirs, files, remote, rows, call >>

\* no job is submitted; one reader task runs on a stream
InitStreams ==
    /\ wide = FALSE
    /\ installed = Tools
    /\ SBOM_CONCURRENCY = MaxConcurrency
    /\ InitJobs
    /\ InitReader

NextStreams == StreamRead \/ StreamReturn

\* _stream_reader, on every stream
SpecStreams == InitStreams /\ [][NextStreams]_vars

(* ============================== claims ================================ *)

Last(s) == s[Len(s)]

\* the status steps a run may take, as <<from, to>>
LegalSteps ==
    { <<Extracting, Generating>>, <<Generating, Complete>>,
      <<Extracting, Failed>>, <<Generating, Failed>> }

\* C1: the status values a run passes to the status collaborator start at Extracting (from
\* Pending), advance one stage at a time to Complete or drop to Failed from a non-terminal
\* status, never go back, and nothing follows Complete or Failed; the stored status is
\* Pending or one of the values written.
C1_StatusSequence ==
    \A j \in Jobs :
        LET w == writes[j] IN
        /\ Len(w) >= 1 => w[1] = Extracting
        /\ \A i \in 1..(Len(w) - 1) : <<w[i], w[i + 1]>> \in LegalSteps
        /\ status[j] \in {Pending} \cup { w[i] : i \in 1..Len(w) }
        /\ (status[j] \in {Complete, Failed} => pc[j] = "done" /\ status[j] = Last(w))

C1_Witness ==
    \E j \in Jobs : writes[j] = <<Extracting, Generating, Complete>> /\ status[j] = Complete

ExtractionFailed(j) == extracted[j] \notin {"none", "ok"}

\* generation failed: no command, a failed pre-command, a failed main command, no output
NoCommandFailure(j) ==
    /\ extracted[j] = "ok"
    /\ bom_cmd[j] = NoCommand
    /\ \/ pc[j] \in {"w_no_root", "w_no_command"}
       \/ pc[j] = "done" /\ Len(writes[j]) = 3

PreFailure(j) == pre_res[j] # <<>> /\ pre_res[j][1].returncode # 0

MainFailure(j) ==
    /\ res[j] # <<>>
    /\ \/ res[j][1].returncode # 0
       \/ pc[j] = "w_no_output"
       \/ pc[j] = "done" /\ upload[j] = NoUpload

GenerationFailed(j) == NoCommandFailure(j) \/ PreFailure(j) \/ MainFailure(j)

\* C2: after a failed extraction the run locates no root, builds no command, spawns no
\* process and uploads nothing; after a failed generation it uploads nothing; in both cases
\* the last status the run writes is Failed, and it is the stored status when main returned.
C2_FailureStops ==
    \A j \in Jobs :
        /\ ExtractionFailed(j) =>
              /\ pc[j] \in {"w_extract_failed", "done"}
              /\ bom_cmd[j] = NoCommand /\ pre_res[j] = <<>> /\ res[j] = <<>>
              /\ ~alive[j] /\ ~holding[j] /\ upload[j] = NoUpload
        /\ GenerationFailed(j) =>
              /\ pc[j] \in {"w_no_root", "w_no_command", "w_pre_failed", "w_gen_failed",
                            "w_no_output", "done"}
              /\ upload[j] = NoUpload
        /\ ((ExtractionFailed(j) \/ GenerationFailed(j)) /\ pc[j] = "done") =>
              /\ Last(writes[j]) = Failed
              /\ ret[j] # "True"
              /\ (ret[j] = "False" => status[j] = Failed)

C2_Witness ==
    \E j \in Jobs : PreFailure(j) /\ pc[j] = "done" /\ status[j] = Failed /\ ret[j] = "False"

\* C3: no exception leaves main, and a run in which the upload request raised ends with
\* status Failed.
C3_ExceptionsCaptured ==
    \A j \in Jobs :
        pc[j] = "done" =>
            /\ ret[j] # "raised"
            /\ (upload[j].kind = "transport_error" => status[j] = Failed)

\* every status the run wrote was stored (no status write raised)
WritesStored(j) == writes[j] # <<>> /\ status[j] = Last(writes[j])

\* C4: a run that has ended has left the status at Complete or Failed, here for the runs
\* whose status writes were all stored.
C4_EndsCompleteOrFailed ==
    \A j \in Jobs : (pc[j] = "done" /\ WritesStored(j)) => status[j] \in {Complete, Failed}

\* extraction succeeded, the main command returned 0 and its output file exists, the
\* upload succeeded
AllStagesSucceeded(j) ==
    /\ extracted[j] = "ok"
    /\ res[j] # <<>> /\ res[j][1].returncode = 0
    /\ Resolve(bom_cmd[j].output) \in files
    /\ upload[j].kind = "response" /\ upload[j].code \in {200, 201}

Invoking == { j \in Jobs : pc[j] \in {"pre_spawn", "pre_run", "main_spawn", "main_run"} }

\* C6: at most SBOM_CONCURRENCY jobs are inside a generator invocation (pre-command or
\* main command), at most that many generator processes exist, and the gate's free slots
\* plus its holders add up to SBOM_CONCURRENCY.
C6_GateBound ==
    /\ Cardinality(Invoking) <= SBOM_CONCURRENCY
    /\ Cardinality({ j \in Jobs : alive[j] }) <= SBOM_CONCURRENCY
    /\ \A j \in Invoking : holding[j]
    /\ permits >= 0
    /\ permits + Cardinality({ j \in Jobs : holding[j] }) = SBOM_CONCURRENCY

C6_Witness ==
    /\ permits = 0
    /\ \E i, j \in Jobs : i # j /\ pc[i] = "main_run" /\ pc[j] = "gate"

\* the steps outside the gate
UngatedPcs ==
    { "w_extracting", "extract", "w_extract_failed", "w_generating", "locate", "w_no_root",
      "w_no_command", "w_gen_failed", "w_no_output", "upload", "w_complete",
      "w_upload_failed" }

\* the step of job j outside the gate, faults aside
UngatedStep(j) ==
    \/ WriteExtracting(j) \/ DoExtract(j) \/ WriteExtractFailed(j) \/ WriteGenerating(j)
    \/ LocateAndBuild(j) \/ WriteNoCommand(j) \/ WriteGenFailed(j) \/ Upload(j)
    \/ WriteComplete(j) \/ WriteUploadFailed(j)

\* C7: while every slot of the gate is held by other jobs, a job at extraction, at a
\* status write, at root location and command construction, or at the upload can take
\* its step; only entering the generator invocation needs a slot.
C7_OnlyGenerationGated ==
    \A j \in Jobs :
        (permits = 0 /\ ~holding[j] /\ pc[j] \in UngatedPcs) => ENABLED UngatedStep(j)

C7_Witness ==
    /\ permits = 0
    /\ \E i, j \in Jobs : i # j /\ holding[i] /\ pc[j] = "w_complete"

\* the files that lie outside the extraction directory of job j
OutsideFiles(j) == { f \in files : ~IsPrefix(ExtractDir(j), f) }

\* the errors of the member checks of _safe_extract_zip and _safe_extract_tar
MemberCheckErrors == {"QuotaExceeded", "AbsolutePath", "UnsafeMember", "PathTraversal"}

\* what follows the rejection of an archive: nothing outside the destination, the Failed
\* write, and Failed with the error stored when main returned
RejectedCleanly(j) ==
    /\ OutsideFiles(j) = {}
    /\ pc[j] \in {"w_extract_failed", "done"}
    /\ pc[j] = "done" =>
          /\ Last(writes[j]) = Failed
          /\ (ret[j] = "False" => status[j] = Failed /\ error_message[j] = extracted[j])

C9_CwdWithinExtractDir ==
    \A j \in Jobs :
        bom_cmd[j] # NoCommand =>
            /\ IsDir(bom_cmd[j].cwd)
            /\ IsPrefix(ExtractDir(j), Resolve(bom_cmd[j].cwd))

TimedOut(r) == r # <<>> /\ r[1].stderr = "TIMEOUT"

\* C10: when a command ran into its timeout, its process has been killed and reaped, the
\* result carries return code 124, the run is at (and can take) its Failed write or has
\* ended with Failed as its last status write, and it uploads nothing.
C10_TimeoutKillsAndFails ==
    \A j \in Jobs :
        (TimedOut(pre_res[j]) \/ TimedOut(res[j])) =>
            /\ ~alive[j]
            /\ TimedOut(pre_res[j]) => pre_res[j][1].returncode = RC_TIMEOUT /\ res[j] = <<>>
            /\ TimedOut(res[j]) => res[j][1].returncode = RC_TIMEOUT
            /\ upload[j] = NoUpload
            /\ pc[j] \in {"w_pre_failed", "w_gen_failed", "done"}
            /\ pc[j] # "done" => ENABLED (WritePreFailed(j) \/ WriteGenFailed(j))
            /\ pc[j] = "done" =>
                  /\ Last(writes[j]) = Failed
                  /\ (ret[j] = "False" => status[j] = Failed)

C10_Witness ==
    \E j \in Jobs : TimedOut(res[j]) /\ pc[j] = "done" /\ status[j] = Failed /\ ~alive[j]

\* both reader tasks of job j have run to completion
ReadersDone(j) == reader_tasks[j] = ReaderTasks("done", "done")

\* C11: when run_command_logged has returned its result for a command that timed out
\* (make_dx_bom is about to write Failed for it), the stdout and the stderr capture task
\* of that command have both run to completion.
C11_ReadersDrainedOnTimeout ==
    \A j \in Jobs :
        \/ pc[j] = "w_pre_failed" /\ TimedOut(pre_res[j])
        \/ pc[j] = "w_gen_failed" /\ TimedOut(res[j])
        => ReadersDone(j)

\* the results run_command_logged has returned to job j
Results(j) == { pre_res[j][i] : i \in DOMAIN pre_res[j] } \cup { res[j][i] : i \in DOMAIN res[j] }

\* the failure shapes that produce the result r
ShapesOf(r) ==
    { shape \in {"timeout", "not_found", "error", "exit"} :
        \/ shape = "timeout" /\ r = TimeoutResult
        \/ shape = "not_found" /\ r = CmdResult(RC_NOT_FOUND, "NOT_FOUND")
        \/ shape = "error" /\ r = CmdResult(RC_ERROR, "repr")
        \/ shape = "exit" /\ \E e \in ProcessExits : e[1] # 0 /\ r = ExitResult(e[1], e[2]) }

\* C12: every failing result run_command_logged returns is the result of exactly one of
\* the failure shapes: timeout, tool not found, supervisor error, or a non-zero exit of
\* the process, whatever code the process exits with.
C12_FailureShapesDistinct ==
    \A j \in Jobs : \A r \in Results(j) :
        r.returncode # 0 => Cardinality(ShapesOf(r)) = 1

\* the status codes the client takes as success, per call
SuccessCodes(op) ==
    CASE op = "create_project" -> {201}
      [] op = "delete_project" -> {200, 202, 204, 404}
      [] op = "update_project_bom" -> {200, 201}
      [] OTHER -> {}

\* C13: a call of the client (create project, delete project, upload BOM) that ends on a
\* failed (non-success) answer of the tracking service has sent MaxAttempts requests.
C13_FailedCallsRetried ==
    \A j \in Jobs :
        ( /\ call[j].op \in ClientOps
          /\ call[j].at = "end"
          /\ call[j].last # 0
          /\ call[j].last \notin SuccessCodes(call[j].op) )
        => call[j].attempts = MaxAttempts

\* the step takes away the row or the extraction directory of project j
RemovesLocal(j) ==
    \/ j \in rows /\ j \notin rows'
    \/ ExtractDir(j) \in dirs /\ ExtractDir(j) \notin dirs'

\* C14: every step that takes away a project's row or its extraction directory is the
\* local part of a removal whose remote deletion was answered with success and has left
\* the project absent on the tracking service; so a removal that is refused (not the
\* owner, unknown project) or whose remote deletion fails on all attempts leaves both.
C14_LocalAfterRemote ==
    [][ \A j \in Jobs :
          RemovesLocal(j) =>
             /\ call[j].op = "remove"
             /\ call[j].at = "local"
             /\ call[j].last \in {200, 202, 204, 404}
             /\ j \notin remote ]_vars

\* a removal has gone through: remote project, directory and row are gone
C14_Witness ==
    \E j \in Jobs :
        /\ call[j].op = "remove" /\ call[j].at = "end" /\ call[j].result = "True"
        /\ call[j].last = 204
        /\ j \notin remote /\ j \notin rows /\ ExtractDir(j) \notin dirs

\* C15: a call of delete_project on the tracking service returns True exactly when the
\* last answer was 200, 202, 204 or 404, and then the project is absent: deleting a
\* project that is already absent (404) succeeds, as often as it is repeated.
C15_RemoteDeleteIdempotent ==
    \A j \in Jobs :
        (call[j].op = "delete_project" /\ call[j].at = "end")
        => /\ call[j].result = "True" <=> call[j].last \in {200, 202, 204, 404}
           /\ call[j].result = "True" => j \notin remote

\* delete_project was called for a project that was already absent and returned True
C15_Witness ==
    \E j \in Jobs :
        /\ call[j].op = "delete_project" /\ call[j].at = "end"
        /\ call[j].last = 404 /\ call[j].result = "True"

\* job j has been through _do_extract
ExtractionDone(j) == extracted[j] # "none"

\* nothing of the archive is in the extraction directory of job j
NothingExtracted(j) == Below(ExtractDir(j), files) = {}

\* C16: an archive (zip or tar) with a symbolic-link or hard-link member, when it is
\* there and readable, is rejected with the unsafe-member error and nothing of it is
\* extracted.
C16_LinkMembersRejected ==
    \A j \in Jobs :
        ( /\ ExtractionDone(j)
          /\ extracted[j] # "ExtractError"
          /\ archive[j].format \in {"zip", "tar"}
          /\ archive[j].has_link )
        => extracted[j] = "UnsafeMember" /\ NothingExtracted(j)

ExtractionStageOver(j) ==
    pc[j] \notin {"new", "rejected", "rejected_language", "create_failed", "w_extracting",
                  "extract"}

\* C18: once the extraction stage of a run has finished, whatever its outcome (a failing
\* status write included), the uploaded archive file no longer exists.
C18_ArchiveDeleted ==
    \A j \in Jobs : ExtractionStageOver(j) => archive_path[j] \notin files

\* C19: when extraction has reported failure, the extraction directory holds nothing of
\* the archive.
C19_NoPartialExtraction ==
    \A j \in Jobs : ExtractionFailed(j) => NothingExtracted(j)

\* the manifest files the strategy of a language expects in the project root
ExpectedManifests(lang) ==
    CASE lang = "python" ->
            { PYTHON_REQUIREMENT_CANDIDATES[i] : i \in DOMAIN PYTHON_REQUIREMENT_CANDIDATES }
            \cup {PYPROJECT}
      [] lang \in {"golang", "go"} -> {GOMOD}
      [] lang = "php" -> {COMPOSER_JSON}
      [] lang \in {"javascript", "node", "nodejs"} -> {PACKAGE_JSON}
      [] lang = "rust" -> {CARGO_TOML}
      [] lang = "java" -> { <<"pom.xml">>, <<"build.gradle">>, <<"build.gradle.kts">>,
                            <<"settings.gradle">>, <<"settings.gradle.kts">> }
      [] lang \in {"c/c++", "c", "cpp"} -> C_CPP_BUILD_METADATA
      [] OTHER -> {}

\* the generator tool of each ecosystem, as which_map and BomCommand.tool name it
GeneratorTools(lang) ==
    CASE lang = "python" -> {"cyclonedx-py"}
      [] lang \in {"golang", "go"} -> {"cyclonedx-gomod"}
      [] lang = "php" -> {"composer"}
      [] lang \in {"javascript", "node", "nodejs"} -> {"cyclonedx-npm"}
      [] lang = "rust" -> {"cargo", "cargo-cyclonedx"}
      [] lang \in {"java", "c/c++", "c", "cpp"} -> {"cdxgen"}
      [] OTHER -> {}

\* C20: build_bom_command has produced a command for a job only if the generator tool of
\* its ecosystem is resolvable and the project root holds one of the ecosystem's
\* expected manifest files.
C20_CommandOnlyWithPreconditions ==
    \A j \in Jobs :
        bom_cmd[j] # NoCommand
        => /\ GeneratorTools(LowerStrip(code_language[j])) \subseteq installed
           /\ \E m \in ExpectedManifests(LowerStrip(code_language[j])) :
                 Exists(Append(bom_cmd[j].cwd, m))

\* the command construction of job j is over
CommandBuilt(j) ==
    pc[j] \notin {"new", "w_extracting", "extract", "w_extract_failed", "w_generating", "locate"}

\* the generator tool of the ecosystem of job j is absent from the execution path
ToolMissing(j) == ~(GeneratorTools(LowerStrip(code_language[j])) \subseteq installed)

\* C21: when the generator tool of a job's ecosystem is absent from the execution path,
\* command building returns no command, no subprocess is spawned for the job, and the
\* run, once over without a raised status write, has status Failed with the
\* missing-manifest/tool diagnostic.
C21_MissingToolFailsWithoutSpawn ==
    \A j \in Jobs :
        (ToolMissing(j) /\ CommandBuilt(j) /\ extracted[j] = "ok")
        => /\ bom_cmd[j] = NoCommand
           /\ pre_res[j] = <<>> /\ res[j] = <<>> /\ ~alive[j]
           /\ (pc[j] = "done" /\ ret[j] # "raised")
              => (status[j] = Failed /\ error_message[j] \in {"NoRoot", "NoCommand"})

\* the main command of job j is about to be spawned, runs, or has returned
MainStarted(j) == pc[j] \in {"main_spawn", "main_run"} \/ res[j] # <<>>

\* C22: a job whose command has a pre-command reaches its main command only after the
\* pre-command returned exit code 0; after a pre-command that returned non-zero (an exit
\* code, the timeout code or the not-found code) the main command has not run, and the
\* run is at its Failed write or has ended with Failed as its last status write.
C22_PreCommandGuardsMain ==
    \A j \in Jobs :
        /\ (bom_cmd[j].pre # "none" /\ MainStarted(j))
           => (pre_res[j] # <<>> /\ pre_res[j][1].returncode = 0)
        /\ PreFailure(j)
           => /\ res[j] = <<>> /\ ~alive[j]
              /\ pc[j] \in {"w_pre_failed", "done"}
              /\ pc[j] # "done" => ENABLED WritePreFailed(j)
              /\ pc[j] = "done" =>
                    /\ Last(writes[j]) = Failed
                    /\ (ret[j] = "False" => status[j] = Failed)

C22_Witness ==
    \E i, j \in Jobs :
        /\ bom_cmd[i].pre # "none" /\ pre_res[i] # <<>> /\ pre_res[i][1].returncode = 0
        /\ res[i] # <<>>
        /\ pre_res[j] # <<>> /\ pre_res[j][1].returncode = RC_NOT_FOUND
        /\ res[j] = <<>> /\ pc[j] = "done" /\ status[j] = Failed

\* the root that was located for job j
Located(j) == bom_cmd[j].cwd

\* extract_dir / hint is a directory
HintDirExists(j) == file_name[j] # <<>> /\ IsDir(Append(ExtractDir(j), file_name[j]))

\* C23: when the hint directory does not exist, the root located for a job is a scanned
\* directory at or below its extraction directory, no scanned directory scores higher,
\* and it is the extraction directory itself when no scanned directory scores above
\* zero; root location yields a directory for every tree.
C23_LocatorReturnsBest ==
    \A j \in Jobs :
        /\ pc[j] = "locate" => _detect_project_root(ExtractDir(j), file_name[j]) # {}
        /\ (bom_cmd[j] # NoCommand /\ ~HintDirExists(j))
           => LET e == Resolve(ExtractDir(j))
                  S == Scanned(e)
              IN  /\ IsDir(Located(j))
                  /\ IsPrefix(e, Located(j))
                  /\ Located(j) \in S
                  /\ \A d \in S : _score_root_candidate(d) <= _score_root_candidate(Located(j))
                  /\ (\A d \in S : _score_root_candidate(d) <= 0) => Located(j) = e

C23_Witness ==
    \E j \in Jobs :
        /\ bom_cmd[j] # NoCommand /\ ~HintDirExists(j)
        /\ Located(j) # ExtractDir(j)
        /\ _score_root_candidate(Located(j)) > _score_root_candidate(ExtractDir(j))
        /\ \E d \in dirs : /\ IsPrefix(ExtractDir(j), d)
                            /\ d \notin Scanned(ExtractDir(j))
                            /\ _score_root_candidate(d) > 0

\* d is the single entry of the extraction directory of job j, and a directory
Wraps(j, d) ==
    /\ d \in dirs
    /\ Len(d) = Len(ExtractDir(j)) + 1
    /\ \A x \in dirs \cup files : (IsPrefix(ExtractDir(j), x) /\ x # ExtractDir(j)) => IsPrefix(d, x)

\* some manifest of ROOT_HINT_FILES lies at the top level of the extraction directory
ManifestsAtTop(j) == \E n \in ROOT_HINT_FILES : Exists(Append(ExtractDir(j), n))

\* C24: for a tree whose content sits under a single wrapping top directory the root
\* located is that directory, and for a tree with manifests at the top level it is the
\* extraction directory itself.
C24_WrapperOrTopLevel ==
    \A j \in Jobs :
        bom_cmd[j] # NoCommand
        => /\ \A d \in dirs : Wraps(j, d) => Located(j) = d
           /\ ManifestsAtTop(j) => Located(j) = ExtractDir(j)

\* what a step of the run of job j keeps to: the main command is spawned only when it
\* has no result yet and its result is never replaced, the upload is called only when
\* it has no outcome yet and its outcome is never replaced, and the project of the job
\* on the tracking service is neither created nor deleted
RunsOnce(j) ==
    /\ (pc[j] = "main_spawn" /\ pc'[j] # "main_spawn") => res[j] = <<>>
    /\ res[j] # <<>> => res'[j] = res[j]
    /\ (pc[j] = "upload" /\ pc'[j] # "upload") => upload[j] = NoUpload
    /\ upload[j] # NoUpload => upload'[j] = upload[j]
    /\ pc[j] # "new" => /\ (j \in remote') <=> (j \in remote)
                        /\ call'[j] = call[j]

\* C25: a step that stores Complete ends a run whose status writes were Extracting,
\* Generating, Complete after the initial Pending, whose main command returned 0 and
\* whose upload was accepted; in every run the main command runs at most once, the
\* upload is called at most once, and no step of the run creates or deletes the project
\* on the tracking service.
C25_SuccessfulRunOnce ==
    [][ \A j \in Jobs :
          /\ RunsOnce(j)
          /\ (status[j] # Complete /\ status'[j] = Complete)
             => /\ writes[j] = <<Extracting, Generating>>
                /\ writes'[j] = <<Extracting, Generating, Complete>>
                /\ res[j] # <<>> /\ res[j][1].returncode = 0
                /\ upload[j].kind = "response" /\ UploadSucceeded(upload[j].code)
                /\ j \in remote' ]_vars

C25_Witness ==
    \E j \in Jobs :
        /\ pc[j] = "done" /\ ret[j] = "True" /\ status[j] = Complete
        /\ writes[j] = <<Extracting, Generating, Complete>>
        /\ bom_cmd[j].pre # "none"

\* len of the text a command result carries as stderr: _stream_reader keeps at most
\* MAX_CAPTURE_CHARS of the stream, the texts of the except branches are short or a repr
TextChars(text) ==
    CASE text = "captured" -> MAX_CAPTURE_CHARS
      [] text \in {"repr", "NOT_FOUND"} -> MAX_CAPTURE_CHARS + 1
      [] OTHER -> 1

Min(a, b) == IF a <= b THEN a ELSE b

\* len(error_message) of the row of job j: a fixed text, the err of the extraction, or a
\* fixed text and stderr[:MAX_CAPTURE_CHARS]
MessageChars(j) ==
    CASE error_message[j] = "NULL" -> 0
      [] error_message[j] = "PreFailed" ->
            PrefixChars + Min(TextChars(pre_res[j][1].stderr), MAX_CAPTURE_CHARS)
      [] error_message[j] = "GenFailed" ->
            PrefixChars + Min(TextChars(res[j][1].stderr), MAX_CAPTURE_CHARS)
      [] error_message[j] \in {"NoRoot", "NoCommand", "NoOutput", "DX error"} -> PrefixChars
      [] OTHER -> archive[j].err_chars

\* C26: the error message stored with status Failed is never longer than a fixed text
\* followed by MAX_CAPTURE_CHARS of variable text, whatever it was built from.
C26_FailedMessagesTruncated ==
    \A j \in Jobs : status[j] = Failed => MessageChars(j) <= PrefixChars + MAX_CAPTURE_CHARS

\* the run of job j is over because one of its status writes raised
StatusWriteFailed(j) ==
    pc[j] = "done" /\ ret[j] = "raised" /\ upload[j].kind # "transport_error"

\* C27: a status write that fails does not stop the run: a run in which a status write
\* raised is over only when the write was its last one (Complete or Failed), with no
\* stage left to run.
C27_StatusWriteBestEffort ==
    \A j \in Jobs : StatusWriteFailed(j) => Last(writes[j]) \in {Complete, Failed}

\* the steps of make_dx_bom and main after the Generating write, up to the last write
GeneratingPcs ==
    { "locate", "w_no_root", "w_no_command", "gate", "pre_spawn", "pre_run", "w_pre_failed",
      "main_spawn", "main_run", "w_gen_failed", "w_no_output", "upload", "w_complete",
      "w_upload_failed" }

\* C28: within a job, Extracting is stored before the archive is read; extraction has
\* finished, with every member written, before Generating is written; Generating is
\* stored while the job locates, builds, generates and uploads; the generator has exited
\* with code 0 and the gate is left before the upload starts; and Complete is written
\* only after the upload call returned success.
C28_StagesInSequence ==
    \A j \in Jobs :
        /\ pc[j] = "extract" => (status[j] = Extracting /\ extracted[j] = "none")
        /\ extracted[j] # "none" => (writes[j] # <<>> /\ writes[j][1] = Extracting)
        /\ (pc[j] = "w_generating" \/ (Len(writes[j]) >= 2 /\ writes[j][2] = Generating))
           => extracted[j] = "ok"
        /\ pc[j] = "w_generating" => status[j] = Extracting
        /\ pc[j] \in GeneratingPcs => status[j] = Generating
        /\ (pc[j] \in {"upload", "w_complete", "w_upload_failed"} \/ upload[j] # NoUpload)
           => /\ ~alive[j] /\ ~holding[j]
              /\ res[j] # <<>> /\ res[j][1].returncode = 0
              /\ bom_cmd[j].pre # "none" => (pre_res[j] # <<>> /\ pre_res[j][1].returncode = 0)
        /\ (pc[j] = "w_complete" \/ (writes[j] # <<>> /\ Last(writes[j]) = Complete))
           => (upload[j].kind = "response" /\ UploadSucceeded(upload[j].code))

C28_Witness ==
    \E i, j \in Jobs :
        /\ pc[i] = "extract" /\ status[i] = Extracting
        /\ pc[j] = "done" /\ status[j] = Complete /\ upload[j].kind = "response"

\* the identifier is one of the set after case normalization
Recognized(language) == LowerStrip(language) \in _ALONE_LANGUAGE

\* nothing of the pipeline has happened for job j
NoStageRan(j) ==
    /\ writes[j] = <<>> /\ status[j] = Pending
    /\ extracted[j] = "none" /\ archive[j] = NoArchive
    /\ j \notin remote /\ j \notin rows /\ call[j] = NoCall
    /\ bom_cmd[j] = NoCommand /\ pre_res[j] = <<>> /\ res[j] = <<>> /\ ~alive[j]
    /\ upload[j] = NoUpload /\ ret[j] = "none"

\* C29: a submitted job is rejected for its language exactly when its identifier,
\* case-normalized, is not in the closed set, and for a job rejected that way no status
\* write, extraction, remote call or subprocess has happened.
C29_UnrecognizedRejected ==
    \A j \in Jobs :
        /\ pc[j] = "rejected_language" <=> (pc[j] # "new" /\ ~Recognized(code_language[j]))
        /\ pc[j] = "rejected_language" => NoStageRan(j)

\* bom_path, as main computes it, can be opened
ArtifactPresent(j) ==
    \E project_root \in _detect_project_root(ExtractDir(j), file_name[j]) :
        Exists(Append(project_root, BomName(j)))

\* C30: a request has gone to the tracking service only for an artifact file that is
\* there; when the file is missing update_project_bom has returned failure with no
\* request sent and no answer received, and the run is at its Failed write or has ended
\* with Failed as its last status write.
C30_MissingArtifactFailsFast ==
    \A j \in Jobs :
        /\ upload[j].kind \in {"response", "transport_error"} => ArtifactPresent(j)
        /\ upload[j].kind = "missing"
           => /\ ~ArtifactPresent(j)
              /\ upload[j].code = 0
              /\ pc[j] \in {"w_upload_failed", "done"}
              /\ pc[j] # "done" => ENABLED WriteUploadFailed(j)
              /\ pc[j] = "done" =>
                    /\ Last(writes[j]) = Failed
                    /\ ret[j] # "True"
                    /\ (ret[j] = "False" => status[j] = Failed /\ error_message[j] = "DX error")

C30_Witness ==
    \E j \in Jobs :
        /\ upload[j].kind = "missing"
        /\ res[j] # <<>> /\ res[j][1].returncode = 0
        /\ pc[j] = "done" /\ status[j] = Failed /\ error_message[j] = "DX error"

\* the texts of the chunks of a stream, one after the other
RECURSIVE ChunkTexts(_)
ChunkTexts(cs) == IF cs = <<>> THEN <<>> ELSE Decode(Head(cs)) \o ChunkTexts(Tail(cs))

\* the text of the whole stream, decoded
Decoded == Decode(Flat(reader.stream))

\* C31: the text a reader task returns is the first min(L, MAX_CAPTURE_CHARS)
\* characters of the decoded stream of length L, and by then the log has received the
\* text of every chunk, those past the cap included.
C31_CaptureIsCappedPrefix ==
    reader.at = "returned"
    => /\ Len(reader.buf) <= MAX_CAPTURE_CHARS
       /\ reader.buf = SubSeq(Decoded, 1, Min(Len(Decoded), MAX_CAPTURE_CHARS))
       /\ reader.log = ChunkTexts(reader.stream)

\* the roots build_bom_command was called with for job j
BuildRoots(j) ==
    IF bom_cmd[j] # NoCommand THEN { bom_cmd[j].cwd }
    ELSE _detect_project_root(ExtractDir(j), file_name[j])

\* the positions of PYTHON_REQUIREMENT_CANDIDATES whose file exists in root
PresentCandidates(root) ==
    { i \in 1..Len(PYTHON_REQUIREMENT_CANDIDATES) :
        Exists(Append(root, PYTHON_REQUIREMENT_CANDIDATES[i])) }

\* C32: for a Python job whose root was located, the command names the requirement
\* file of lowest position in PYTHON_REQUIREMENT_CANDIDATES that exists in the root;
\* it names pyproject.toml only when no listed requirement file exists there, and no
\* command is built when neither exists.
C32_PythonManifestPriority ==
    \A j \in Jobs :
        (code_language[j] = "python" /\ pc[j] \in {"gate", "w_no_command"})
        => \A root \in BuildRoots(j) :
              LET S == PresentCandidates(root) IN
              /\ S # {}
                 => /\ pc[j] = "gate"
                    /\ \E i \in S : /\ \A k \in S : i <= k
                                    /\ bom_cmd[j].manifest = PYTHON_REQUIREMENT_CANDIDATES[i]
              /\ (S = {} /\ Exists(Append(root, PYPROJECT)))
                 => pc[j] = "gate" /\ bom_cmd[j].manifest = PYPROJECT
              /\ (S = {} /\ ~Exists(Append(root, PYPROJECT)))
                 => pc[j] = "w_no_command" /\ bom_cmd[j] = NoCommand

C32_Witness ==
    \E j \in Jobs :
        /\ code_language[j] = "python" /\ pc[j] = "gate"
        /\ bom_cmd[j].manifest = PYTHON_REQUIREMENT_CANDIDATES[2]
        /\ Exists(Append(bom_cmd[j].cwd, PYTHON_REQUIREMENT_CANDIDATES[3]))

\* the calls that run the loop of create_project or of delete_project (a removal calls
\* delete_project)
LoopOps == {"create_project", "delete_project", "remove"}

\* the status codes that end the loop of the operation
LoopSuccess(op) == IF op = "create_project" THEN {201} ELSE {200, 202, 204, 404}

\* the prefix of the text of the exception the loop of the operation raises
FailedTag(op) ==
    IF op = "create_project" THEN "DX_CREATE_PROJECT_FAILED" ELSE "DX_DELETE_PROJECT_FAILED"

\* C33: a call of create_project or delete_project sends at most MaxAttempts requests;
\* once an answer is a success no further request is sent (the call has ended, or the
\* removal has gone on to its local part), and a 201 without uuid ends create_project
\* with an exception at once; a call still looping has had only failed answers; a call
\* that ended on a failed answer has sent MaxAttempts requests and raised the
\* exception built from that last answer: its status code and its text cut to
\* MaxErrChars.
C33_BoundedRetriesLastError ==
    \A j \in Jobs :
        call[j].op \in LoopOps
        => /\ call[j].attempts <= MaxAttempts
           /\ call[j].last \in LoopSuccess(call[j].op)
              => /\ call[j].at \in {"end", "local"}
                 /\ call[j].at = "end" /\ call[j].op # "remove"
                    => call[j].result \in {"uuid", "True", "raised"}
                 /\ (call[j].op = "create_project" /\ call[j].result = "raised")
                    => call[j].last = 201
           /\ call[j].at \in {"request", "sleep"}
              => (call[j].attempts > 0 => call[j].last \notin LoopSuccess(call[j].op) \cup {0})
           /\ (call[j].at = "end" /\ call[j].last \notin LoopSuccess(call[j].op) \cup {0})
              => /\ call[j].attempts = MaxAttempts
                 /\ call[j].result = "raised"
                 /\ call[j].err = << FailedTag(call[j].op), call[j].last,
                                     IF call[j].body < MaxErrChars THEN call[j].body
                                     ELSE MaxErrChars >>

\* a call raised after MaxAttempts failed answers whose last text was longer than the
\* bound, and a call of create_project raised on a 201 without uuid after a failed answer
C33_Witness ==
    /\ \E j \in Jobs :
          /\ call[j].op = "create_project" /\ call[j].at = "end"
          /\ call[j].result = "raised" /\ call[j].attempts = MaxAttempts
          /\ call[j].last = 500 /\ call[j].body > MaxErrChars
    /\ \E j \in Jobs :
          /\ call[j].op = "create_project" /\ call[j].at = "end"
          /\ call[j].result = "raised" /\ call[j].last = 201 /\ call[j].attempts = 2

\* job j was submitted and its extraction has not read its archive yet
AwaitsExtraction(j) == pc[j] \in {"w_extracting", "extract"}

\* C34: while a submitted job has not yet extracted its archive, the archive file saved
\* for it exists, and no other job waiting for extraction has the same archive file.
C34_ArchiveExclusive ==
    \A j \in Jobs :
        AwaitsExtraction(j)
        => /\ archive_path[j] \in files
           /\ \A i \in Jobs \ {j} : AwaitsExtraction(i) => archive_path[i] # archive_path[j]

\* C35: when main locates the project root again after make_dx_bom has returned the
\* name of the artifact, it gets the directory the command was run in, so the path it
\* uploads is the output path of the command.
C35_RootRedetectedSame ==
    \A j \in Jobs :
        pc[j] = "upload"
        => \A project_root \in _detect_project_root(ExtractDir(j), file_name[j]) :
              /\ project_root = bom_cmd[j].cwd
              /\ Append(project_root, BomName(j)) = bom_cmd[j].output

\* the places of a job inside a generator invocation: spawning or awaiting the
\* pre-command or the main command
CommandPcs == {"pre_spawn", "pre_run", "main_spawn", "main_run"}

\* the places of a job inside "async with _SBOM_SEM"
GatedPcs == CommandPcs \cup {"w_pre_failed"}

\* C36 as stated: a slot is held only while the pre-command or the main command of the
\* job is in progress, and with no job inside a command every slot is free.
C36_SlotOnlyDuringCommands ==
    /\ \A j \in Jobs : holding[j] => pc[j] \in CommandPcs
    /\ (\A j \in Jobs : pc[j] \notin CommandPcs) => permits = SBOM_CONCURRENCY

\* C36, amended: a job holds a slot exactly while it is inside the gated block - its
\* pre-command, its main command, or the Failed status write that follows a failed
\* pre-command - so the slot is released on every way out of it; with no job inside the
\* block all SBOM_CONCURRENCY slots are free; and a job waiting at the gate is
\* eventually admitted.
C36_SlotReleasedAndAdmitted ==
    /\ [](\A j \in Jobs : holding[j] <=> pc[j] \in GatedPcs)
    /\ []((\A j \in Jobs : pc[j] \notin GatedPcs) => permits = SBOM_CONCURRENCY)
    /\ \A j \in Jobs : (pc[j] = "gate") ~> (pc[j] # "gate")

\* with a single slot, one job has left the gate through the failed pre-command and
\* its Failed write, and the other job has been admitted
C36_Witness ==
    /\ permits = 0
    /\ \E i, j \in Jobs :
          /\ i # j
          /\ pc[i] = "done" /\ pre_res[i] # <<>> /\ pre_res[i][1].returncode # 0
          /\ Last(writes[i]) = Failed
          /\ holding[j] /\ pc[j] \in CommandPcs

\* C37: the stored error message of a job is non-null exactly when its stored status
\* is Failed, and then it is not empty; a step that stores Extracting, Generating or
\* Complete stores a null message with it, and a step that stores Failed stores a
\* message.
C37_MessageIffFailed ==
    /\ [](\A j \in Jobs :
            /\ status[j] = Failed <=> error_message[j] # "NULL"
            /\ status[j] = Failed => MessageChars(j) > 0)
    /\ [][ \A j \in Jobs :
             (status'[j] # status[j] \/ error_message'[j] # error_message[j])
             => /\ status'[j] = Last(writes'[j])
                /\ status'[j] \in {Extracting, Generating, Complete}
                   => error_message'[j] = "NULL"
                /\ status'[j] = Failed => error_message'[j] # "NULL" ]_vars

\* a run that stored Extracting and Generating with a null message and then Failed
\* with the message of the failed main command
C37_Witness ==
    \E j \in Jobs :
        /\ writes[j] = << Extracting, Generating, Failed >>
        /\ status[j] = Failed /\ error_message[j] = "GenFailed"

\* delete_project of sbom_db has returned True for the project of job j
Deleted(j) == call[j].op = "remove" /\ call[j].at = "end" /\ call[j].result = "True"

\* C38: after the removal of a project has returned, no step of the project's
\* background task creates its extraction directory, starts a generator process for
\* it, or uploads an artifact for it.
C38_StaysDeleted ==
    [][ \A j \in Jobs :
          Deleted(j)
          => /\ ExtractDir(j) \in dirs' => ExtractDir(j) \in dirs
             /\ alive'[j] => alive[j]
             /\ upload'[j].kind = "response" => upload[j].kind = "response" ]_vars

\* the creation request of job j has failed: rejected by the validation, or ended by an
\* exception
RequestFailed(j) == pc[j] \in {"rejected", "rejected_language", "create_failed"}

\* C39: a creation request that has failed has left no project on the tracking
\* service, no saved archive file and no row, and no background task was started for
\* it.
C39_FailedRequestLeavesNothing ==
    \A j \in Jobs :
        RequestFailed(j)
        => /\ j \notin remote
           /\ archive_path[j] \notin files
           /\ j \notin rows
           /\ writes[j] = <<>> /\ ret[j] = "none"

====
